---- MODULE Spec2Model ----
(***************************************************************************)
(* A model of GpuScan (src/src/gpuscan.c): the cooperative chunk reader    *)
(* (gpuscan_parallel_nextpage and its caller gpuscanExecScanChunk) and the *)
(* task pipeline (gpuscan_create_task, gpuscan_process_task,               *)
(* gpuscan_next_tuple, gpuscan_next_tuple_fallback).                       *)
(*                                                                         *)
(* Two specifications share the module:                                    *)
(*   ScanSpec  N workers reserving block ranges from the shared cursor     *)
(*   TaskSpec  workers creating, processing and draining tasks             *)
(* Each leaves the other's variables at their initial values.              *)
(***************************************************************************)
EXTENDS Integers, Sequences, FiniteSets, Bags, TLC

(***************************************************************************)
(* Bounds of the model and program constants.  RELSEG_SIZE and             *)
(* CCACHE_CHUNK_NBLOCKS are scaled down (131072 and 16384 blocks in a      *)
(* default build); the scaling keeps CCACHE_CHUNK_NBLOCKS a power of two   *)
(* that divides RELSEG_SIZE.                                               *)
(***************************************************************************)
MaxBlocks == 6
MaxAtOnce == 3
RELSEG_SIZE == 4
CCACHE_CHUNK_NBLOCKS == 2
InvalidBlockNumber == -1

Workers == {"w1", "w2"}
NoWorker == "none"
NoChunk == -1

Min(a, b) == IF a < b THEN a ELSE b

VARIABLES
    \* ---- chunk reader: shared ParallelHeapScanDesc and the cache
    rs_nblocks,       \* scan->rs_nblocks (= phs_nblocks), the table size
    phs_syncscan,     \* parallel_scan->phs_syncscan
    phs_startblock,   \* parallel_scan->phs_startblock
    phs_cblock,       \* parallel_scan->phs_cblock
    phs_mutex,        \* holder of parallel_scan->phs_mutex, or NoWorker
    ccache,           \* chunk base -> "none" | "empty" | "full"
    \* ---- chunk reader: per worker
    pc,               \* position of the worker
    nr_blocks,        \* argument / local nr_blocks
    sync_startpage,   \* local sync_startpage
    page,             \* local page
    cc_chunk,         \* local cc_chunk (base of the chunk held, or NoChunk)
    report_page,      \* local report_page
    rs_cblock,        \* scan->rs_cblock
    rs_numblocks,     \* scan->rs_numblocks
    rs_inited,        \* scan->rs_inited
    rs_startblock,    \* scan->rs_startblock
    \* ---- chunk reader: history
    assigned,         \* block -> number of times it was assigned (capped at 2)
    raw_blocks,       \* the blocks handed out in raw ranges
    col_blocks,       \* the blocks of the columnar chunks returned
    end_reports       \* reports of the position at the end of the scan
                      \* made to ss_report_location (capped at 2)

scanShared == <<rs_nblocks, phs_syncscan, phs_startblock, phs_cblock, phs_mutex, ccache>>
scanLocal  == <<pc, nr_blocks, sync_startpage, page, cc_chunk, report_page>>
scanDesc   == <<rs_cblock, rs_numblocks, rs_inited, rs_startblock>>
scanHist   == <<assigned, raw_blocks, col_blocks, end_reports>>
scanVars   == <<scanShared, scanLocal, scanDesc, scanHist>>


VARIABLES
    \* ---- task pipeline: scan-wide state
    dev_projection,   \* gss->dev_projection (base_proj is built exactly then)
    dev_quals,        \* gss->dev_quals: [present, pass, used_vars], pass = the
                      \* values accepted, used_vars = the variables referenced
    kern_source,      \* the predicate functions codegen_gpuscan_quals emitted
    pgstrom_cpu_fallback_enabled,
    nitems_filtered,  \* gs_rtstat->nitems_filtered
    ccache_count,     \* gs_rtstat->ccache_count
    \* ---- task pipeline: per worker
    stage,            \* "none" | "created" | "ready" | "drained" | "error"
    task,             \* the worker's GpuScanTask
    curr_index,       \* gts->curr_index
    out,              \* the tuples pulled from the task so far
    ops,              \* device and chunk operations of the last gpuscan_process_task
    retval,           \* what the last gpuscan_process_task returned
    \* ---- task pipeline: history
    ntasks,           \* tasks created so far
    column_chunks,    \* column-format chunks gpuscanExecScanChunk returned so far
    rows_balance      \* sum over released tasks of (input rows - output rows)

VARIABLES
    \* ---- planning: the call of codegen_gpuscan_quals
    codegen_quals,    \* its dev_quals and context->used_vars: [present, used_vars]
    kern,             \* the kernel source buffer: the texts appended so far
    elog_error,       \* the error raised, or "none"
    codegen_pc        \* "idle" | "call" | "returned" | "error"

planVars == <<codegen_quals, kern, elog_error, codegen_pc>>

VARIABLES
    \* ---- one block-format chunk while gpuscanExecScanChunk fills it
    kds_nrooms,        \* pds->kds.nrooms
    kds_nitems,        \* pds->kds.nitems
    nblocks_uncached,  \* pds->nblocks_uncached
    block_nums,        \* the block-number array: slot -> block, InvalidBlockNumber
                       \* where nothing was stored
    pages,             \* the pages of the chunk: block -> "resident" | "uncached"
    pds_pc             \* "idle" | "filling" | "returned"

pdsVars == <<kds_nrooms, kds_nitems, nblocks_uncached, block_nums, pages, pds_pc>>

VARIABLES
    \* ---- executor start-up: the predicate of the CPU fallback
    gs_dev_quals,      \* gs_info->dev_quals, over the device projection if any
    custom_scan_tlist, \* cscan->custom_scan_tlist: the expressions of its entries
    dev_quals_raw,     \* the predicate over the raw tuple
    fixup_pc           \* "idle" | "call" | "done"

fixupVars == <<gs_dev_quals, custom_scan_tlist, dev_quals_raw, fixup_pc>>

VARIABLES
    \* ---- references to columnar-cache chunks held by the chunk reader
    cc_refs,           \* chunk base -> references taken and not yet given back
    cc_gets            \* chunks taken by the call in progress

refVars == <<cc_refs, cc_gets>>

VARIABLES
    \* ---- planning and running the device projection
    plan_tlist,        \* the plan's target list: its expressions
    host_quals,        \* pull_vars_of_level(host_quals): the variables
    plan_dev_quals,    \* pull_vars_of_level(dev_quals): the variables
    tlist_dev,         \* build_gpuscan_projection; cscan->custom_scan_tlist
    proj_extra_sz,     \* gs_info->proj_extra_sz
    tbody,             \* the body of gpuscan_projection_tuple, as statements
    dev_tlist,         \* ExecInitGpuScan: the list base_proj is built from
    tup,               \* one run of gpuscan_projection_tuple
    proj_pc            \* "idle" | "build" | "estimate" | "codegen" | "init"
                       \* | "run" | "done"

projVars == <<plan_tlist, host_quals, plan_dev_quals, tlist_dev, proj_extra_sz,
              tbody, dev_tlist, tup, proj_pc>>

VARIABLES
    \* ---- passes of one scan over a table that does not change
    pass_rows,         \* the table: the rows of its chunks, in scan order
    pass_pos,          \* chunks handed out in the current pass
    pass_direct,       \* the current pass handed out a chunk with pages that
                       \* are left to the direct load (nblocks_uncached > 0)
    passes             \* the passes ended by a rescan: whether complete, and
                       \* the two counters at the rescan

passVars == <<pass_rows, pass_pos, pass_direct, passes>>

extVars == <<refVars, projVars, passVars>>

taskShared == <<dev_projection, dev_quals, kern_source, pgstrom_cpu_fallback_enabled,
                planVars, pdsVars, fixupVars, extVars>>
taskStat   == <<nitems_filtered, ccache_count>>
taskLocal  == <<stage, task, curr_index, out, ops, retval>>
taskHist   == <<ntasks, column_chunks>>
taskVars   == <<taskShared, taskStat, taskLocal, taskHist, rows_balance>>

\* the task pipeline and the planning state apart from extVars
taskRest == <<dev_projection, dev_quals, kern_source, pgstrom_cpu_fallback_enabled,
              planVars, pdsVars, fixupVars, taskStat, taskLocal, taskHist,
              rows_balance>>

VARIABLES
    \* ---- single-backend chunk reader and rewind
    outer_pds_suspend, \* gts->outer_pds_suspend: the blocks of the chunk set aside
    inflight,          \* worker -> one of its tasks is being executed
    rescan_pc,         \* worker -> the call of ExecReScanGpuScan it is at, 0 outside
    scan_done,         \* gpuscanExecScanChunk has returned NULL since the last rewind
    delivered,         \* block -> times handed out since the last rewind (capped at 2)
    nrescans           \* rewinds so far

readerVars == <<outer_pds_suspend, inflight, rescan_pc, scan_done, delivered, nrescans>>

vars == <<scanVars, taskVars, readerVars>>

(***************************************************************************)
(* The columnar cache, seen through pgstrom_ccache_get_chunk and           *)
(* pgstrom_ccache_is_empty.                                                *)
(***************************************************************************)
ChunkBases(nblocks) ==
    {b \in 0..(nblocks - 1) : b % CCACHE_CHUNK_NBLOCKS = 0
                               /\ b + CCACHE_CHUNK_NBLOCKS <= nblocks}

pgstrom_ccache_get_chunk(block_nr) ==
    IF block_nr \in DOMAIN ccache /\ ccache[block_nr] # "none"
    THEN block_nr ELSE NoChunk

pgstrom_ccache_is_empty(chunk) == ccache[chunk] = "empty"

\* the blocks a chunk stands for
ChunkBlocks(chunk) ==
    IF chunk = NoChunk THEN {} ELSE chunk..(chunk + CCACHE_CHUNK_NBLOCKS - 1)

(***************************************************************************)
(* gpuscan_parallel_nextpage: the arithmetic of the critical section.      *)
(***************************************************************************)
\* base = (page + CCACHE_CHUNK_NBLOCKS-1) & ~(CCACHE_CHUNK_NBLOCKS-1)
RoundUpToChunk(pg) ==
    ((pg + CCACHE_CHUNK_NBLOCKS - 1) \div CCACHE_CHUNK_NBLOCKS) * CCACHE_CHUNK_NBLOCKS

\* a variant that hands out the range as requested
ClampNrBlocks_AsRequested(pg, nr, start) == nr

\* the three clamps of the requested range: segment boundary, end of the
\* relation, start block
ClampNrBlocks(pg, nr, start) ==
    LET n1 == IF (pg \div RELSEG_SIZE) # ((pg + nr - 1) \div RELSEG_SIZE)
              THEN RELSEG_SIZE - (pg % RELSEG_SIZE) ELSE nr
        n2 == IF pg + n1 > rs_nblocks THEN rs_nblocks - pg ELSE n1
    IN  IF pg < start /\ pg + n2 >= start THEN start - pg ELSE n2

\* the condition under which the columnar cache is looked up
\* (ccache_refs is taken to be set: a scan without it behaves as an empty cache)
CacheLookupAllowed(pg, nr, base, start) ==
    /\ pg <= base /\ pg + nr >= base
    /\ (base >= start \/ base + CCACHE_CHUNK_NBLOCKS <= start)
    /\ base + CCACHE_CHUNK_NBLOCKS <= rs_nblocks

\* the loop over empty chunks: <<cc_chunk, phs_cblock>> when it ends
RECURSIVE SkipEmptyChunks(_, _)
SkipEmptyChunks(chunk, cblock) ==
    IF ~pgstrom_ccache_is_empty(chunk)
    THEN <<chunk, cblock>>
    ELSE LET next == pgstrom_ccache_get_chunk(cblock)
         IN  IF next = NoChunk
             THEN <<NoChunk, cblock>>
             ELSE SkipEmptyChunks(next, cblock + CCACHE_CHUNK_NBLOCKS)

\* wraparound and the end-of-scan test; the new phs_cblock
WrapCursor(cblock, start) ==
    LET wrapped == IF cblock >= rs_nblocks THEN 0 ELSE cblock
    IN  IF wrapped = start THEN InvalidBlockNumber ELSE wrapped

\* The reservation made for a valid cursor `pg`:
\*   nr_blocks  the raw blocks handed out, [pg, pg + nr_blocks)
\*   cc_chunk   the columnar chunk returned, or NoChunk
\*   cached     the blocks of the chunks skipped or returned
\*   cblock     the cursor before wraparound
ReserveBlocks(pg, nr, start) ==
    LET n    == ClampNrBlocks(pg, nr, start)
        base == RoundUpToChunk(pg)
        first == IF CacheLookupAllowed(pg, n, base, start)
                 THEN pgstrom_ccache_get_chunk(base) ELSE NoChunk
    IN  IF first = NoChunk
        THEN [nr_blocks |-> n, cc_chunk |-> NoChunk, cached |-> {},
              cblock |-> pg + n]
        ELSE LET r == SkipEmptyChunks(first, base + CCACHE_CHUNK_NBLOCKS)
             IN  IF r[1] = NoChunk
                 THEN [nr_blocks |-> base - pg, cc_chunk |-> NoChunk,
                       cached |-> {}, cblock |-> pg + (base - pg)]
                 ELSE [nr_blocks |-> base - pg, cc_chunk |-> r[1],
                       cached |-> base..(r[2] - 1), cblock |-> r[2]]

\* history: one more assignment of every block of S
Assign(hist, S) ==
    [b \in DOMAIN hist |-> IF b \in S THEN Min(hist[b] + 1, 2) ELSE hist[b]]

(***************************************************************************)
(* The task pipeline.  A chunk (pgstrom_data_store) is modelled by its     *)
(* format, its rows as the device sees them once loaded (rows), its rows   *)
(* as host memory holds them (host_rows) and nblocks_uncached: in a        *)
(* block-format chunk the last nblocks_uncached rows sit on pages that are *)
(* not yet host-resident, and host memory holds arbitrary values there     *)
(* until the pages are filled up.                                          *)
(***************************************************************************)
MaxRows == 2
MaxTasks == 2
MaxRetry == 1
RetvalInit == 100001

Vals == {1, 2}
SeqsUpTo(n) == UNION {[1..k -> Vals] : k \in 0..n}

KDS_FORMAT_ROW == "KDS_FORMAT_ROW"
KDS_FORMAT_BLOCK == "KDS_FORMAT_BLOCK"
KDS_FORMAT_COLUMN == "KDS_FORMAT_COLUMN"

StromError_Success == "StromError_Success"
StromError_CpuReCheck == "StromError_CpuReCheck"
StromError_DataStoreNoSpace == "StromError_DataStoreNoSpace"
StromError_Other == "StromError_Other"
KernelErrors == {StromError_Success, StromError_CpuReCheck,
                 StromError_DataStoreNoSpace, StromError_Other}

CUDA_SUCCESS == "CUDA_SUCCESS"
CUDA_ERROR_OUT_OF_MEMORY == "CUDA_ERROR_OUT_OF_MEMORY"
CUDA_ERROR_OTHER == "CUDA_ERROR_OTHER"
CUresults == {CUDA_SUCCESS, CUDA_ERROR_OUT_OF_MEMORY, CUDA_ERROR_OTHER}

\* the chunks gpuscanExecScanChunk can hand to gpuscan_next_task
SourceChunks ==
    {[format |-> f, rows |-> r, host_rows |-> r, nblocks_uncached |-> 0] :
        f \in {KDS_FORMAT_ROW, KDS_FORMAT_BLOCK, KDS_FORMAT_COLUMN},
        r \in SeqsUpTo(MaxRows)}
    \cup
    {[format |-> KDS_FORMAT_BLOCK, rows |-> r,
      host_rows |-> [r EXCEPT ![Len(r)] = g], nblocks_uncached |-> 1] :
        r \in SeqsUpTo(MaxRows) \ {<<>>}, g \in Vals}

\* a tuple handed to the caller: the source value, and whether it went
\* through the projection
Tuple(projected, val) == [projected |-> projected, val |-> val]

\* ExecQual(gss->dev_quals, econtext) on a row
ExecQual(v) == v \in dev_quals.pass

(***************************************************************************)
(* codegen_gpuscan_quals: the sanity check of the variables the predicate  *)
(* references, and the two predicate functions appended to the kernel      *)
(* source, each as the statements of its body and the expression returned. *)
(* context->used_vars is the list of the distinct variables of the         *)
(* predicate, in the order the expression walk met them.                   *)
(***************************************************************************)
MaxVars == 2       \* variables a predicate references
MaxAttno == 3      \* attributes of the relation scanned
scanrelid == 1     \* range table index of the relation scanned
OtherRelids == {2} \* any other relation

\* a Var node of used_vars; devtype = pgstrom_devtype_lookup finds its type
Var(varno, varattno, devtype) ==
    [varno |-> varno, varattno |-> varattno, devtype |-> devtype]

Stmt(op, arg) == [op |-> op, arg |-> arg]

SetMax(S) == CHOOSE x \in S : \A y \in S : y <= x

\* the elog(ERROR) of the sanity check for one variable, or "none"
VarError(var) ==
    IF var.varno # scanrelid THEN "unexpected var-node reference"
    ELSE IF var.varattno = 0
    THEN "cannot have whole-row reference on GPU expression"
    ELSE IF var.varattno < 0
    THEN "cannot have system column on GPU expression"
    ELSE IF ~var.devtype THEN "failed to lookup device type"
    ELSE "none"

\* foreach (lc, context->used_vars): the first error raised, or "none"
SanityCheck(used_vars) ==
    LET bad == {i \in 1..Len(used_vars) : VarError(used_vars[i]) # "none"}
    IN  IF bad = {} THEN "none"
        ELSE VarError(used_vars[CHOOSE i \in bad : \A j \in bad : i <= j])

\* "pg_<type>_t KVAR_<n>;" for every variable, in list order
Declarations(used_vars) ==
    [i \in 1..Len(used_vars) |-> Stmt("declare", used_vars[i].varattno)]

\* the walk over the heap tuple: for (anum=1; anum <= varattno_max; anum++)
RECURSIVE ExtractHeapTuple(_, _, _)
ExtractHeapTuple(used, anum, max) ==
    IF anum > max THEN <<>>
    ELSE (IF anum \in used THEN <<Stmt("pg_datum_ref", anum)>> ELSE <<>>)
         \o (IF anum < max THEN <<Stmt("EXTRACT_HEAP_TUPLE_NEXT", 0)>> ELSE <<>>)
         \o ExtractHeapTuple(used, anum + 1, max)

\* the same walk for the column layout
RECURSIVE ExtractColumns(_, _, _)
ExtractColumns(used, anum, max) ==
    IF anum > max THEN <<>>
    ELSE (IF anum \in used
          THEN <<Stmt("kern_get_datum_column", anum - 1), Stmt("pg_datum_ref", anum)>>
          ELSE <<>>)
         \o ExtractColumns(used, anum + 1, max)

\* the text appended at the output label for a missing predicate
NullQualsSource ==
    [gpuscan_quals_eval |-> [body |-> <<>>, ret |-> "true"],
     gpuscan_quals_eval_column |-> [body |-> <<>>, ret |-> "true"]]

\* the text appended for a predicate over used_vars; direct = the branch
\* list_length(context->used_vars) <= 1 is taken
QualsSource(used_vars, direct) ==
    LET used == {used_vars[i].varattno : i \in 1..Len(used_vars)}
        max  == IF used = {} THEN 0 ELSE SetMax(used)
        decl == Declarations(used_vars)
    IN  IF direct
        THEN [gpuscan_quals_eval |->
                 [body |-> IF used = {} THEN <<>>
                           ELSE decl \o <<Stmt("kern_get_datum_tuple", max - 1),
                                          Stmt("pg_datum_ref", max)>>,
                  ret |-> "EVAL"],
              gpuscan_quals_eval_column |->
                 [body |-> IF used = {} THEN <<>>
                           ELSE decl \o <<Stmt("kern_get_datum_column", max - 1),
                                          Stmt("pg_datum_ref", max)>>,
                  ret |-> "EVAL"]]
        ELSE [gpuscan_quals_eval |->
                 [body |-> decl \o <<Stmt("EXTRACT_HEAP_TUPLE_BEGIN", 0)>>
                           \o ExtractHeapTuple(used, 1, max)
                           \o <<Stmt("EXTRACT_HEAP_TUPLE_END", 0)>>,
                  ret |-> "EVAL"],
              gpuscan_quals_eval_column |->
                 [body |-> decl \o ExtractColumns(used, 1, max),
                  ret |-> "EVAL"]]

\* a variant that skips the test of a missing predicate
codegen_gpuscan_quals_NoNullTest(quals) ==
    LET err == SanityCheck(quals.used_vars)
    IN  IF err # "none" THEN [elog |-> err, kern |-> <<>>]
        ELSE [elog |-> "none",
              kern |-> <<QualsSource(quals.used_vars, Len(quals.used_vars) <= 1)>>]

\* a variant that walks the tuple also for a single variable
codegen_gpuscan_quals_AlwaysWalk(quals) ==
    IF ~quals.present THEN [elog |-> "none", kern |-> <<NullQualsSource>>]
    ELSE LET err == SanityCheck(quals.used_vars)
         IN  IF err # "none" THEN [elog |-> err, kern |-> <<>>]
             ELSE [elog |-> "none",
                   kern |-> <<QualsSource(quals.used_vars, quals.used_vars = <<>>)>>]

\* a variant that checks the variables after the functions were appended
codegen_gpuscan_quals_CheckAfterOutput(quals) ==
    IF ~quals.present THEN [elog |-> "none", kern |-> <<NullQualsSource>>]
    ELSE [elog |-> SanityCheck(quals.used_vars),
          kern |-> <<QualsSource(quals.used_vars, Len(quals.used_vars) <= 1)>>]

\* codegen_gpuscan_quals: the error raised, or "none", and what was
\* appended to the kernel source buffer
codegen_gpuscan_quals(quals) ==
    IF ~quals.present THEN [elog |-> "none", kern |-> <<NullQualsSource>>]
    ELSE LET err == SanityCheck(quals.used_vars)
         IN  IF err # "none" THEN [elog |-> err, kern |-> <<>>]
             ELSE [elog |-> "none",
                   kern |-> <<QualsSource(quals.used_vars,
                                          Len(quals.used_vars) <= 1)>>]

\* the value of a generated predicate function on a row: "return true;" or
\* "return EVAL(<expression>);", the expression being that of dev_quals
EvalGenerated(fn, v) == IF fn.ret = "true" THEN TRUE ELSE ExecQual(v)

\* the predicates a plan can carry
DevQuals ==
    {[present |-> FALSE, pass |-> Vals, used_vars |-> <<>>],
     [present |-> TRUE, pass |-> {1}, used_vars |-> <<Var(scanrelid, 2, TRUE)>>],
     [present |-> TRUE, pass |-> {1},
      used_vars |-> <<Var(scanrelid, 3, TRUE), Var(scanrelid, 1, TRUE)>>]}

\* ExecProject(gss->base_proj)
ExecProject(v) == Tuple(TRUE, v)

NoTask ==
    [format |-> KDS_FORMAT_ROW, rows |-> <<>>, host_rows |-> <<>>,
     nblocks_uncached |-> 0,
     has_pds_dst |-> FALSE, dst_rows |-> <<>>,
     has_kresults |-> FALSE, nrooms |-> 0, results |-> <<>>,
     with_nvme_strom |-> FALSE,
     kern_kerror |-> StromError_Success, nitems_in |-> 0, nitems_out |-> 0,
     kerror |-> StromError_Success, cpu_fallback |-> FALSE,
     nretry |-> 0]

\* gpuscan_create_task
\* a variant whose index array is one entry short
gpuscan_create_task_ShortResults(pds_src) ==
    LET index_only == pds_src.format = KDS_FORMAT_ROW /\ ~dev_projection
    IN  [NoTask EXCEPT
            !.format = pds_src.format,
            !.rows = pds_src.rows,
            !.host_rows = pds_src.host_rows,
            !.nblocks_uncached = pds_src.nblocks_uncached,
            !.has_pds_dst = ~index_only,
            !.has_kresults = index_only,
            !.nrooms = IF index_only /\ Len(pds_src.rows) > 0
                       THEN Len(pds_src.rows) - 1 ELSE 0,
            !.with_nvme_strom = (pds_src.format = KDS_FORMAT_BLOCK
                                 /\ pds_src.nblocks_uncached > 0)]

\* a variant that allocates a destination chunk for every source chunk
gpuscan_create_task_AlwaysDestination(pds_src) ==
    [NoTask EXCEPT
        !.format = pds_src.format,
        !.rows = pds_src.rows,
        !.host_rows = pds_src.host_rows,
        !.nblocks_uncached = pds_src.nblocks_uncached,
        !.has_pds_dst = TRUE,
        !.has_kresults = FALSE,
        !.nrooms = 0,
        !.with_nvme_strom = (pds_src.format = KDS_FORMAT_BLOCK
                             /\ pds_src.nblocks_uncached > 0)]

gpuscan_create_task(pds_src) ==
    LET index_only == pds_src.format = KDS_FORMAT_ROW /\ ~dev_projection
    IN  [NoTask EXCEPT
            !.format = pds_src.format,
            !.rows = pds_src.rows,
            !.host_rows = pds_src.host_rows,
            !.nblocks_uncached = pds_src.nblocks_uncached,
            !.has_pds_dst = ~index_only,
            !.has_kresults = index_only,
            !.nrooms = IF index_only THEN Len(pds_src.rows) ELSE 0,
            !.with_nvme_strom = (pds_src.format = KDS_FORMAT_BLOCK
                                 /\ pds_src.nblocks_uncached > 0)]

(***************************************************************************)
(* gpuscan_process_task                                                    *)
(***************************************************************************)
\* one call into the CUDA runtime or the data store, with what it returned
Op(call, rc) == [call |-> call, rc |-> rc]
Ok(call) == Op(call, CUDA_SUCCESS)

\* PDS_fillup_blocks(pds_src): the not-yet-resident pages are read into
\* host memory
PDS_fillup_blocks(t) == [t EXCEPT !.host_rows = t.rows]

\* "Allocation of device memory" for the source chunk:
\*   status  "ok" | "out_of_resource" | "werror"
\*   m_kds_src  whether a device buffer was allocated for it
AllocSourceBuffer_NoRetry(t, iomap_rc, alloc_rc) ==
    [task |-> t, status |-> "ok", m_kds_src |-> t.format = KDS_FORMAT_BLOCK,
     ops |-> IF t.format = KDS_FORMAT_BLOCK
             THEN <<Op("gpuMemAlloc", alloc_rc)>> ELSE <<>>]

AllocSourceBuffer(t, iomap_rc, alloc_rc) ==
    IF t.format # KDS_FORMAT_BLOCK
    THEN [task |-> t, ops |-> <<>>, status |-> "ok", m_kds_src |-> FALSE]
    ELSE
    LET iomap_tried == t.with_nvme_strom
        iomap_ok    == iomap_tried /\ iomap_rc = CUDA_SUCCESS
        iomap_oom   == iomap_tried /\ iomap_rc = CUDA_ERROR_OUT_OF_MEMORY
        t1   == IF iomap_oom
                THEN [PDS_fillup_blocks(t) EXCEPT !.with_nvme_strom = FALSE]
                ELSE t
        ops1 == (IF iomap_tried THEN <<Op("gpuMemAllocIOMap", iomap_rc)>> ELSE <<>>)
                \o (IF iomap_oom THEN <<Ok("PDS_fillup_blocks")>> ELSE <<>>)
    IN  IF iomap_tried /\ ~iomap_ok /\ ~iomap_oom
        THEN [task |-> t1, ops |-> ops1, status |-> "werror", m_kds_src |-> FALSE]
        ELSE IF iomap_ok
        THEN [task |-> t1, ops |-> ops1, status |-> "ok", m_kds_src |-> TRUE]
        ELSE LET ops2 == ops1 \o <<Op("gpuMemAlloc", alloc_rc)>>
             IN  IF alloc_rc = CUDA_ERROR_OUT_OF_MEMORY
                 THEN [task |-> t1, ops |-> ops2, status |-> "out_of_resource",
                       m_kds_src |-> FALSE]
                 ELSE IF alloc_rc # CUDA_SUCCESS
                 THEN [task |-> t1, ops |-> ops2, status |-> "werror",
                       m_kds_src |-> FALSE]
                 ELSE [task |-> t1, ops |-> ops2, status |-> "ok",
                       m_kds_src |-> TRUE]

\* a variant that keeps the direct storage-to-device load for every
\* block-format chunk
TransferSource_AlwaysSSD(t) ==
    IF t.format # KDS_FORMAT_BLOCK THEN <<Ok("cuMemPrefetchAsync")>>
    ELSE <<Ok("gpuMemCopyFromSSD")>>

\* "enqueue a series of requests": how the source chunk reaches the device
TransferSource(t) ==
    IF t.format # KDS_FORMAT_BLOCK THEN <<Ok("cuMemPrefetchAsync")>>
    ELSE IF ~t.with_nvme_strom THEN <<Ok("cuMemcpyHtoDAsync")>>
    ELSE <<Ok("gpuMemCopyFromSSD")>>

\* what the device holds after the transfer: the pages read from storage,
\* or a copy of host memory
DeviceRows(t) == IF t.with_nvme_strom THEN t.rows ELSE t.host_rows

\* The kernel gpuscan_exec_quals_{row,block,column}: every row of the chunk
\* is counted in nitems_in, the rows the predicate accepts are emitted in
\* source order, as offsets (index-only result) or as projected tuples in
\* the destination chunk.  A kernel that reports an error has emitted only
\* the first `done` of them.
PassingRows(rows) ==
    LET Test(i) == EvalGenerated(kern_source.gpuscan_quals_eval, rows[i])
    IN  SelectSeq([i \in 1..Len(rows) |-> i], Test)

PassingRowsColumn(rows) ==
    LET Test(i) == EvalGenerated(kern_source.gpuscan_quals_eval_column, rows[i])
    IN  SelectSeq([i \in 1..Len(rows) |-> i], Test)

KernelRun(t, errcode, done) ==
    LET rows == DeviceRows(t)
        hits == IF t.format = KDS_FORMAT_COLUMN
                THEN PassingRowsColumn(rows) ELSE PassingRows(rows)
        n    == IF errcode = StromError_Success THEN Len(hits)
                ELSE Min(done, Len(hits))
        emitted == SubSeq(hits, 1, n)
    IN  [t EXCEPT
            !.kern_kerror = errcode,
            !.nitems_in = Len(rows),
            !.nitems_out = n,
            !.results = IF t.has_kresults THEN emitted ELSE <<>>,
            !.dst_rows = IF t.has_pds_dst
                         THEN [i \in 1..n |-> Tuple(dev_projection, rows[emitted[i]])]
                         ELSE <<>>]

\* variants of the fallback test: one that knows only the recheck kind,
\* one that takes every kernel error for a recoverable one
IsRecoverable_RecheckOnly(task_errcode, kern_errcode) ==
    pgstrom_cpu_fallback_enabled /\ task_errcode = StromError_CpuReCheck

IsRecoverable_AnyError(task_errcode, kern_errcode) ==
    pgstrom_cpu_fallback_enabled /\ task_errcode # StromError_Success

\* the test that decides between CPU fallback and a fatal error
IsRecoverable(task_errcode, kern_errcode) ==
    pgstrom_cpu_fallback_enabled
    /\ (task_errcode = StromError_CpuReCheck
        \/ kern_errcode = StromError_DataStoreNoSpace)

\* the test that decides whether device-only pages are written back;
\* dst_unc is the nblocks_uncached field of the destination chunk, which
\* PDS_create_row filled in
NeedsWriteBack(t, dst_unc) == t.with_nvme_strom /\ dst_unc > 0

\* a variant that counts nothing for a successful task
FilteredByKernel_Nothing(t) == 0

\* what a successful task adds to nitems_filtered
FilteredByKernel(t) == t.nitems_in - t.nitems_out

\* "Check GPU kernel status and nitems/usage", to out_of_resource; wb_rc is
\* what the calls of the write-back return
CheckKernelStatus(t, dst_unc, wb_rc) ==
    LET t1 == [t EXCEPT !.kerror = t.kern_kerror]
    IN  IF t1.kerror = StromError_Success
        THEN [task |-> t1, ops |-> <<Ok("cuMemPrefetchAsync")>>,
              raised |-> FALSE, filtered |-> FilteredByKernel(t1)]
        ELSE IF IsRecoverable(t1.kerror, t1.kern_kerror)
        THEN LET t2 == [t1 EXCEPT !.kerror = StromError_Success,
                                  !.cpu_fallback = TRUE]
             IN  IF NeedsWriteBack(t2, dst_unc)
                 THEN IF wb_rc # CUDA_SUCCESS
                      THEN [task |-> t2, ops |-> <<Op("cuMemcpyDtoHAsync", wb_rc)>>,
                            raised |-> TRUE, filtered |-> 0]
                      ELSE [task |-> [t2 EXCEPT !.host_rows = t2.rows],
                            ops |-> <<Ok("cuMemcpyDtoHAsync"),
                                      Ok("cuEventSynchronize")>>,
                            raised |-> FALSE, filtered |-> 0]
                 ELSE [task |-> t2, ops |-> <<>>, raised |-> FALSE, filtered |-> 0]
        ELSE [task |-> t1, ops |-> <<>>, raised |-> FALSE, filtered |-> 0]

\* out_of_resource: the device buffer of a block-format chunk is freed
FreeSourceBuffer(t, m_kds_src) ==
    IF t.format = KDS_FORMAT_BLOCK
    THEN IF m_kds_src THEN <<Ok("gpuMemFree")>> ELSE <<Ok("gpuMemFree(0)")>>
    ELSE <<>>

\* the whole function:
\*   task, ops   the task and the calls made
\*   retval      the value returned (0, or RetvalInit: out of resource)
\*   raised      werror() was called
\*   filtered    what was added to nitems_filtered
\* launch_rc is what the calls between the allocation and the
\* synchronization return.
gpuscan_process_task(t, iomap_rc, alloc_rc, launch_rc, errcode, done, dst_unc, wb_rc) ==
    LET a == AllocSourceBuffer(t, iomap_rc, alloc_rc)
    IN  IF a.status = "werror"
        THEN [task |-> a.task, ops |-> a.ops, retval |-> RetvalInit,
              raised |-> TRUE, filtered |-> 0]
        ELSE IF a.status = "out_of_resource"
        THEN [task |-> a.task,
              ops |-> a.ops \o FreeSourceBuffer(a.task, a.m_kds_src),
              retval |-> RetvalInit, raised |-> FALSE, filtered |-> 0]
        ELSE IF launch_rc # CUDA_SUCCESS
        THEN [task |-> a.task,
              ops |-> a.ops \o TransferSource(a.task)
                      \o <<Op("cuLaunchKernel", launch_rc)>>,
              retval |-> RetvalInit, raised |-> TRUE, filtered |-> 0]
        ELSE LET k == KernelRun(a.task, errcode, done)
                 c == CheckKernelStatus(k, dst_unc, wb_rc)
                 ops3 == a.ops \o TransferSource(a.task)
                         \o <<Ok("cuLaunchKernel"), Ok("cuEventSynchronize")>>
                         \o c.ops
             IN  IF c.raised
                 THEN [task |-> c.task, ops |-> ops3, retval |-> 0,
                       raised |-> TRUE, filtered |-> 0]
                 ELSE [task |-> c.task,
                       ops |-> ops3 \o FreeSourceBuffer(c.task, a.m_kds_src),
                       retval |-> 0, raised |-> FALSE, filtered |-> c.filtered]

(***************************************************************************)
(* gpuscan_next_tuple and gpuscan_next_tuple_fallback                      *)
(*   valid        a tuple is returned (slot), otherwise NULL               *)
(*   curr_index   gts->curr_index after the call                           *)
(*   filtered     what the call added to nitems_filtered                   *)
(***************************************************************************)
NoTuple == Tuple(FALSE, 0)

\* PDS_fetch_tuple(slot, pds, gts) reads row gts->curr_index of host memory
\* and advances curr_index; it fails past the last row.
RECURSIVE gpuscan_next_tuple_fallback(_, _)
gpuscan_next_tuple_fallback(t, idx) ==
    IF idx >= Len(t.host_rows)
    THEN [valid |-> FALSE, slot |-> NoTuple, curr_index |-> idx, filtered |-> 0]
    ELSE LET v == t.host_rows[idx + 1]
         IN  IF dev_quals.present /\ ~ExecQual(v)
             THEN LET r == gpuscan_next_tuple_fallback(t, idx + 1)
                  IN  [r EXCEPT !.filtered = @ + 1]
             ELSE [valid |-> TRUE,
                   slot |-> IF dev_projection THEN ExecProject(v)
                            ELSE Tuple(FALSE, v),
                   curr_index |-> idx + 1, filtered |-> 0]

\* a variant that moves the read index also when no result is left
gpuscan_next_tuple_AdvancesAtEnd(t, idx) ==
    LET end == [valid |-> FALSE, slot |-> NoTuple, curr_index |-> idx + 1,
                filtered |-> 0]
    IN  IF t.cpu_fallback
        THEN gpuscan_next_tuple_fallback(t, idx)
        ELSE IF t.has_pds_dst
        THEN IF idx < Len(t.dst_rows)
             THEN [valid |-> TRUE, slot |-> t.dst_rows[idx + 1],
                   curr_index |-> idx + 1, filtered |-> 0]
             ELSE end
        ELSE IF idx < Len(t.results)
             THEN [valid |-> TRUE,
                   slot |-> Tuple(FALSE, t.host_rows[t.results[idx + 1]]),
                   curr_index |-> idx + 1, filtered |-> 0]
             ELSE end

\* a variant that counts the end of the chunk as a row filtered out
gpuscan_next_tuple_EndCounted(t, idx) ==
    LET end == [valid |-> FALSE, slot |-> NoTuple, curr_index |-> idx,
                filtered |-> 1]
    IN  IF t.cpu_fallback
        THEN LET r == gpuscan_next_tuple_fallback(t, idx)
             IN  IF r.valid THEN r ELSE [r EXCEPT !.filtered = @ + 1]
        ELSE IF t.has_pds_dst
        THEN IF idx < Len(t.dst_rows)
             THEN [valid |-> TRUE, slot |-> t.dst_rows[idx + 1],
                   curr_index |-> idx + 1, filtered |-> 0]
             ELSE end
        ELSE IF idx < Len(t.results)
             THEN [valid |-> TRUE,
                   slot |-> Tuple(FALSE, t.host_rows[t.results[idx + 1]]),
                   curr_index |-> idx + 1, filtered |-> 0]
             ELSE end

gpuscan_next_tuple(t, idx) ==
    IF t.cpu_fallback
    THEN gpuscan_next_tuple_fallback(t, idx)
    ELSE IF t.has_pds_dst
    THEN IF idx < Len(t.dst_rows)
         THEN [valid |-> TRUE, slot |-> t.dst_rows[idx + 1],
               curr_index |-> idx + 1, filtered |-> 0]
         ELSE [valid |-> FALSE, slot |-> NoTuple, curr_index |-> idx,
               filtered |-> 0]
    ELSE IF idx < Len(t.results)
         THEN [valid |-> TRUE,
               slot |-> Tuple(FALSE, t.host_rows[t.results[idx + 1]]),
               curr_index |-> idx + 1, filtered |-> 0]
         ELSE [valid |-> FALSE, slot |-> NoTuple, curr_index |-> idx,
               filtered |-> 0]

\* every tuple a caller pulls from the task, from position idx on
RECURSIVE DrainTask(_, _)
DrainTask(t, idx) ==
    LET r == gpuscan_next_tuple(t, idx)
    IN  IF r.valid THEN <<r.slot>> \o DrainTask(t, r.curr_index) ELSE <<>>

(***************************************************************************)
(* The states in which one half of the model rests while the other runs.   *)
(***************************************************************************)
ScanIdle ==
    /\ rs_nblocks = 0
    /\ phs_syncscan = FALSE
    /\ phs_startblock = InvalidBlockNumber
    /\ phs_cblock = InvalidBlockNumber
    /\ phs_mutex = NoWorker
    /\ ccache = <<>>
    /\ pc = [w \in Workers |-> "idle"]
    /\ nr_blocks = [w \in Workers |-> 0]
    /\ sync_startpage = [w \in Workers |-> InvalidBlockNumber]
    /\ page = [w \in Workers |-> InvalidBlockNumber]
    /\ cc_chunk = [w \in Workers |-> NoChunk]
    /\ report_page = [w \in Workers |-> InvalidBlockNumber]
    /\ rs_cblock = [w \in Workers |-> InvalidBlockNumber]
    /\ rs_numblocks = [w \in Workers |-> 0]
    /\ rs_inited = [w \in Workers |-> FALSE]
    /\ rs_startblock = [w \in Workers |-> InvalidBlockNumber]
    /\ assigned = <<>>
    /\ raw_blocks = {}
    /\ col_blocks = {}
    /\ end_reports = 0

ReaderIdle ==
    /\ outer_pds_suspend = <<>>
    /\ inflight = [w \in Workers |-> FALSE]
    /\ rescan_pc = [w \in Workers |-> 0]
    /\ scan_done = FALSE
    /\ delivered = <<>>
    /\ nrescans = 0

\* expression nodes: NULL, Var and OpExpr over a list of arguments
NullNode == [tag |-> "NULL", varno |-> 0, varattno |-> 0, args |-> <<>>]
VarNode(varno, varattno) ==
    [tag |-> "Var", varno |-> varno, varattno |-> varattno, args |-> <<>>]
OpExpr(args) == [tag |-> "OpExpr", varno |-> 0, varattno |-> 0, args |-> args]

RefIdle ==
    /\ cc_refs = <<>>
    /\ cc_gets = 0

NoRun == [isnull_set |-> {}, isnull |-> {}, values_set |-> {}, extra |-> 0]

ProjIdle ==
    /\ plan_tlist = <<>>
    /\ host_quals = <<>>
    /\ plan_dev_quals = <<>>
    /\ tlist_dev = <<>>
    /\ proj_extra_sz = 0
    /\ tbody = <<>>
    /\ dev_tlist = <<>>
    /\ tup = NoRun
    /\ proj_pc = "idle"

PassIdle ==
    /\ pass_rows = <<>>
    /\ pass_pos = 0
    /\ pass_direct = FALSE
    /\ passes = <<>>

ExtIdle == RefIdle /\ ProjIdle /\ PassIdle

FixupIdle ==
    /\ gs_dev_quals = NullNode
    /\ custom_scan_tlist = <<>>
    /\ dev_quals_raw = NullNode
    /\ fixup_pc = "idle"

PdsIdle ==
    /\ FixupIdle
    /\ kds_nrooms = 0
    /\ kds_nitems = 0
    /\ nblocks_uncached = 0
    /\ block_nums = <<>>
    /\ pages = <<>>
    /\ pds_pc = "idle"

PlanIdle ==
    /\ PdsIdle
    /\ codegen_quals = [present |-> FALSE, used_vars |-> <<>>]
    /\ kern = <<>>
    /\ elog_error = "none"
    /\ codegen_pc = "idle"

TaskIdle ==
    /\ PlanIdle
    /\ dev_projection = FALSE
    /\ dev_quals = [present |-> FALSE, pass |-> Vals, used_vars |-> <<>>]
    /\ kern_source = codegen_gpuscan_quals(dev_quals).kern[1]
    /\ pgstrom_cpu_fallback_enabled = FALSE
    /\ nitems_filtered = 0
    /\ ccache_count = 0
    /\ stage = [w \in Workers |-> "none"]
    /\ task = [w \in Workers |-> NoTask]
    /\ curr_index = [w \in Workers |-> 0]
    /\ out = [w \in Workers |-> <<>>]
    /\ ops = [w \in Workers |-> <<>>]
    /\ retval = [w \in Workers |-> 0]
    /\ ntasks = 0
    /\ column_chunks = 0
    /\ rows_balance = 0

(***************************************************************************)
(* ScanSpec: the initial state.  heap_parallelscan_initialize leaves       *)
(* phs_cblock and phs_startblock invalid; the table has at least one       *)
(* block (gpuscanExecScanChunk returns at once when rs_nblocks = 0).       *)
(***************************************************************************)
ScanInit ==
    /\ rs_nblocks \in 1..MaxBlocks
    /\ phs_syncscan \in BOOLEAN
    /\ phs_startblock = InvalidBlockNumber
    /\ phs_cblock = InvalidBlockNumber
    /\ phs_mutex = NoWorker
    /\ ccache \in [ChunkBases(rs_nblocks) -> {"none", "empty", "full"}]
    /\ pc = [w \in Workers |-> "idle"]
    /\ nr_blocks = [w \in Workers |-> 0]
    /\ sync_startpage = [w \in Workers |-> InvalidBlockNumber]
    /\ page = [w \in Workers |-> InvalidBlockNumber]
    /\ cc_chunk = [w \in Workers |-> NoChunk]
    /\ report_page = [w \in Workers |-> InvalidBlockNumber]
    /\ rs_cblock = [w \in Workers |-> InvalidBlockNumber]
    /\ rs_numblocks = [w \in Workers |-> 0]
    /\ rs_inited = [w \in Workers |-> FALSE]
    /\ rs_startblock = [w \in Workers |-> InvalidBlockNumber]
    /\ assigned = [b \in 0..(rs_nblocks - 1) |-> 0]
    /\ raw_blocks = {}
    /\ col_blocks = {}
    /\ end_reports = 0
    /\ TaskIdle
    /\ ExtIdle
    /\ ReaderIdle

(***************************************************************************)
(* gpuscanExecScanChunk, parallel branch: the call of                      *)
(* gpuscan_parallel_nextpage when the worker has no block left to read.    *)
(* nblocks_atonce is 8, the room left in the chunk, or nblocks_per_chunk.  *)
(***************************************************************************)
CallNextPage(w) ==
    /\ pc[w] = "idle"
    /\ ~rs_inited[w] \/ (rs_cblock[w] # InvalidBlockNumber /\ rs_numblocks[w] = 0)
    /\ \E n \in 1..Min(MaxAtOnce, RELSEG_SIZE - 1) :
          nr_blocks' = [nr_blocks EXCEPT ![w] = n]
    /\ rs_inited' = [rs_inited EXCEPT ![w] = TRUE]
    /\ pc' = [pc EXCEPT ![w] = "retry"]
    /\ UNCHANGED <<scanShared, sync_startpage, page, cc_chunk, report_page,
                   rs_cblock, rs_numblocks, rs_startblock, scanHist>>

\* mutant: the lock is taken without waiting for its holder to release it
SpinLockAcquire_NoWait(w) ==
    /\ pc[w] = "retry"
    /\ phs_mutex' = w
    /\ pc' = [pc EXCEPT ![w] = "locked"]
    /\ UNCHANGED <<rs_nblocks, phs_syncscan, phs_startblock, phs_cblock, ccache,
                   nr_blocks, sync_startpage, page, cc_chunk, report_page,
                   scanDesc, scanHist>>

\* SpinLockAcquire(&parallel_scan->phs_mutex)
SpinLockAcquire(w) ==
    /\ pc[w] = "retry"
    /\ phs_mutex = NoWorker
    /\ phs_mutex' = w
    /\ pc' = [pc EXCEPT ![w] = "locked"]
    /\ UNCHANGED <<rs_nblocks, phs_syncscan, phs_startblock, phs_cblock, ccache,
                   nr_blocks, sync_startpage, page, cc_chunk, report_page,
                   scanDesc, scanHist>>

\* a variant in which a worker that fetched a location sets it
StartBlock_OwnLocation(startblock, syncscan, location) ==
    IF location # InvalidBlockNumber THEN location
    ELSE IF startblock # InvalidBlockNumber THEN startblock
    ELSE 0

\* phs_startblock behind "if (parallel_scan->phs_startblock ==
\* InvalidBlockNumber)": set only when it was not, to 0 or to the location
\* the worker fetched
StartBlock(startblock, syncscan, location) ==
    IF startblock # InvalidBlockNumber THEN startblock
    ELSE IF ~syncscan THEN 0 ELSE location

\* a variant that leaves report_page alone at the end of the scan
EndReportPage_Never(cblock, start) == InvalidBlockNumber

\* report_page behind the critical section: the start block when the
\* reservation ended the scan
EndReportPage(cblock, start) ==
    IF cblock = InvalidBlockNumber THEN start ELSE InvalidBlockNumber

\* The critical section, to SpinLockRelease: either the lock is dropped to
\* fetch a synchronized start position, or the start block is settled and a
\* range is reserved.
CursorSection(w) ==
    /\ pc[w] = "locked"
    /\ IF /\ phs_startblock = InvalidBlockNumber
          /\ phs_syncscan
          /\ sync_startpage[w] = InvalidBlockNumber
       THEN /\ phs_mutex' = NoWorker
            /\ pc' = [pc EXCEPT ![w] = "getloc"]
            /\ UNCHANGED <<phs_startblock, phs_cblock, nr_blocks, page,
                           cc_chunk, report_page, scanHist>>
       ELSE LET start == StartBlock(phs_startblock, phs_syncscan, sync_startpage[w])
                pg    == IF phs_startblock # InvalidBlockNumber THEN phs_cblock
                         ELSE start
            IN  /\ phs_startblock' = start
                /\ page' = [page EXCEPT ![w] = pg]
                /\ IF pg = InvalidBlockNumber
                   THEN /\ phs_cblock' = pg
                        /\ UNCHANGED <<nr_blocks, cc_chunk, report_page, scanHist>>
                   ELSE LET r  == ReserveBlocks(pg, nr_blocks[w], start)
                            cb == WrapCursor(r.cblock, start)
                        IN  /\ nr_blocks' = [nr_blocks EXCEPT ![w] = r.nr_blocks]
                            /\ cc_chunk' = [cc_chunk EXCEPT ![w] = r.cc_chunk]
                            /\ phs_cblock' = cb
                            /\ report_page' = [report_page EXCEPT ![w] =
                                   EndReportPage(cb, start)]
                            /\ assigned' = Assign(assigned,
                                   (pg..(pg + r.nr_blocks - 1)) \cup r.cached)
                            /\ raw_blocks' = raw_blocks \cup (pg..(pg + r.nr_blocks - 1))
                            /\ col_blocks' = col_blocks \cup ChunkBlocks(r.cc_chunk)
                            /\ end_reports' = end_reports
                /\ phs_mutex' = NoWorker
                /\ pc' = [pc EXCEPT ![w] = "report"]
    /\ UNCHANGED <<rs_nblocks, phs_syncscan, ccache, sync_startpage, scanDesc>>

\* sync_startpage = ss_get_location(relation, scan->rs_nblocks); goto retry
GetSyncLocation(w) ==
    /\ pc[w] = "getloc"
    /\ \E loc \in 0..(rs_nblocks - 1) :
          sync_startpage' = [sync_startpage EXCEPT ![w] = loc]
    /\ pc' = [pc EXCEPT ![w] = "retry"]
    /\ UNCHANGED <<scanShared, nr_blocks, page, cc_chunk, report_page,
                   scanDesc, scanHist>>

\* if (scan->rs_syncscan) ... ss_report_location(scan->rs_rd, report_page)
ReportLocation(w) ==
    /\ pc[w] = "report"
    /\ report_page' = [report_page EXCEPT ![w] =
          IF phs_syncscan /\ report_page[w] = InvalidBlockNumber
          THEN page[w] ELSE report_page[w]]
    /\ end_reports' = IF phs_syncscan /\ report_page[w] # InvalidBlockNumber
                      THEN Min(2, end_reports + 1) ELSE end_reports
    /\ pc' = [pc EXCEPT ![w] = "load"]
    /\ UNCHANGED <<scanShared, nr_blocks, sync_startpage, page, cc_chunk,
                   scanDesc, assigned, raw_blocks, col_blocks>>

\* if (cc_chunk) { pgstrom_ccache_load_chunk; pgstrom_ccache_put_chunk }
\* scan->rs_cblock = page; scan->rs_numblocks = nr_blocks; return
LoadChunkAndReturn(w) ==
    /\ pc[w] = "load"
    /\ rs_cblock' = [rs_cblock EXCEPT ![w] = page[w]]
    /\ rs_numblocks' = [rs_numblocks EXCEPT ![w] = nr_blocks[w]]
    \* the locals die with the call
    /\ cc_chunk' = [cc_chunk EXCEPT ![w] = NoChunk]
    /\ nr_blocks' = [nr_blocks EXCEPT ![w] = 0]
    /\ page' = [page EXCEPT ![w] = InvalidBlockNumber]
    /\ report_page' = [report_page EXCEPT ![w] = InvalidBlockNumber]
    /\ sync_startpage' = [sync_startpage EXCEPT ![w] = InvalidBlockNumber]
    /\ pc' = [pc EXCEPT ![w] = "idle"]
    /\ UNCHANGED <<scanShared, rs_inited, rs_startblock, scanHist>>

\* gpuscanExecScanChunk, "move to the next block", over the blocks of the
\* range the worker holds.  scan->rs_startblock is not set by a parallel scan:
\* whether a block number equals it is a nondeterministic choice (hit = the
\* step at which it does, 0 for never).
ReadRange(w) ==
    /\ pc[w] = "idle"
    /\ rs_inited[w]
    /\ rs_cblock[w] # InvalidBlockNumber
    /\ rs_numblocks[w] > 0
    /\ \E hit \in 0..rs_numblocks[w] :
          LET last == rs_cblock[w] + rs_numblocks[w]
          IN  IF hit = 0
              THEN /\ rs_cblock' = [rs_cblock EXCEPT ![w] =
                          IF last >= rs_nblocks THEN 0 ELSE last]
                   /\ rs_numblocks' = [rs_numblocks EXCEPT ![w] = 0]
              ELSE /\ rs_cblock' = [rs_cblock EXCEPT ![w] = InvalidBlockNumber]
                   /\ rs_numblocks' = [rs_numblocks EXCEPT ![w] = rs_numblocks[w] - hit]
    /\ UNCHANGED <<scanShared, scanLocal, rs_inited, rs_startblock, scanHist>>

ScanNext ==
    /\ \E w \in Workers :
          \/ CallNextPage(w)
          \/ SpinLockAcquire(w)
          \/ CursorSection(w)
          \/ GetSyncLocation(w)
          \/ ReportLocation(w)
          \/ LoadChunkAndReturn(w)
          \/ ReadRange(w)
    /\ UNCHANGED <<taskVars, readerVars>>

ScanSpec == ScanInit /\ [][ScanNext]_vars

(***************************************************************************)
(* Claims about the chunk reader (ScanSpec).                               *)
(***************************************************************************)

\* C1: no storage block is assigned twice: the raw ranges handed to workers
\* and the ranges of the columnar chunks returned or skipped are pairwise
\* disjoint over the life of the scan.
C1_NoBlockAssignedTwice ==
    \A b \in DOMAIN assigned : assigned[b] <= 1

\* C2: when the shared cursor is end-of-scan, every block 0..B-1 has been
\* assigned to some worker, inside a raw range or a columnar chunk range.
C2_EndOfScanCoversTable ==
    (phs_startblock # InvalidBlockNumber /\ phs_cblock = InvalidBlockNumber)
        => \A b \in 0..(rs_nblocks - 1) : assigned[b] >= 1

\* C2 witness: a synchronized scan of several chunks' worth of blocks, with a
\* cached chunk, that started inside the table has reached end-of-scan.
C2_Witness ==
    /\ phs_cblock = InvalidBlockNumber
    /\ phs_startblock > 0
    /\ rs_nblocks > 2 * CCACHE_CHUNK_NBLOCKS
    /\ \E b \in DOMAIN ccache : ccache[b] = "full"
    /\ \A b \in 0..(rs_nblocks - 1) : assigned[b] >= 1

\* C10: at most one worker is inside the critical section; a worker holds
\* the lock exactly while it is inside, so the lock is released on every
\* path out and is never held while the worker fetches or reports the
\* synchronized-scan location or loads a columnar chunk.
C10_CursorLockExclusive ==
    /\ Cardinality({w \in Workers : pc[w] = "locked"}) <= 1
    /\ \A w \in Workers : (phs_mutex = w) <=> (pc[w] = "locked")
    /\ \A w \in Workers :
          pc[w] \in {"idle", "retry", "getloc", "report", "load"} => phs_mutex # w

\* C10 witness: one worker is inside the critical section while another
\* waits for the lock and has fetched a synchronized start position.
C10_Witness ==
    \E w1, w2 \in Workers :
        /\ w1 # w2
        /\ pc[w1] = "locked" /\ phs_mutex = w1
        /\ pc[w2] = "retry" /\ sync_startpage[w2] # InvalidBlockNumber


(***************************************************************************)
(* TaskSpec: the task pipeline of the scan.  ExecInitGpuScan fixes whether *)
(* the plan has a device projection and device qualifiers; the GUC         *)
(* pgstrom.cpu_fallback_enabled is fixed for the run.  The qualifier, when *)
(* present, accepts value 1 and rejects value 2.                           *)
(***************************************************************************)
TaskInit ==
    /\ ScanIdle
    /\ ReaderIdle
    /\ dev_projection \in BOOLEAN
    /\ PlanIdle
    /\ ExtIdle
    /\ dev_quals \in DevQuals
    /\ kern_source = codegen_gpuscan_quals(dev_quals).kern[1]
    /\ pgstrom_cpu_fallback_enabled \in BOOLEAN
    /\ nitems_filtered = 0
    /\ ccache_count = 0
    /\ stage = [w \in Workers |-> "none"]
    /\ task = [w \in Workers |-> NoTask]
    /\ curr_index = [w \in Workers |-> 0]
    /\ out = [w \in Workers |-> <<>>]
    /\ ops = [w \in Workers |-> <<>>]
    /\ retval = [w \in Workers |-> 0]
    /\ ntasks = 0
    /\ column_chunks = 0
    /\ rows_balance = 0

\* a variant that drops the add
pg_atomic_add_fetch_u64_Dropped(counter, add) == counter

\* pg_atomic_add_fetch_u64: one indivisible read-add-write of a shared counter
pg_atomic_add_fetch_u64(counter, add) == counter + add

\* gpuscan_next_task: a chunk from the reader becomes a task
gpuscan_next_task(w) ==
    /\ stage[w] = "none"
    /\ ntasks < MaxTasks
    /\ \E pds \in SourceChunks :
          /\ task' = [task EXCEPT ![w] = gpuscan_create_task(pds)]
          /\ ccache_count' = IF pds.format = KDS_FORMAT_COLUMN
                             THEN pg_atomic_add_fetch_u64(ccache_count, 1)
                             ELSE ccache_count
          /\ column_chunks' = column_chunks
                              + (IF pds.format = KDS_FORMAT_COLUMN THEN 1 ELSE 0)
    /\ stage' = [stage EXCEPT ![w] = "created"]
    /\ ntasks' = ntasks + 1
    /\ ops' = [ops EXCEPT ![w] = <<>>]
    /\ out' = [out EXCEPT ![w] = <<>>]
    /\ UNCHANGED <<taskShared, nitems_filtered, curr_index, retval, rows_balance>>

\* What the CUDA runtime and the kernel may answer to one run of
\* gpuscan_process_task on task t; an answer the run never asks for is
\* held at one value.
ProcessInputs(t) ==
    LET block == t.format = KDS_FORMAT_BLOCK
        nvme  == block /\ t.with_nvme_strom
        all   == [iomap_rc : IF nvme THEN CUresults ELSE {CUDA_SUCCESS},
                  alloc_rc : IF block THEN CUresults ELSE {CUDA_SUCCESS},
                  launch_rc : {CUDA_SUCCESS, CUDA_ERROR_OTHER},
                  errcode : KernelErrors,
                  done : 0..Len(t.rows),
                  dst_unc : IF nvme THEN 0..1 ELSE {0},
                  wb_rc : IF nvme THEN {CUDA_SUCCESS, CUDA_ERROR_OTHER}
                          ELSE {CUDA_SUCCESS}]
    IN  {in \in all :
            /\ nvme /\ in.iomap_rc = CUDA_SUCCESS => in.alloc_rc = CUDA_SUCCESS
            /\ in.launch_rc # CUDA_SUCCESS => in.errcode = StromError_Success
            /\ in.errcode = StromError_Success => in.done = 0 /\ in.dst_unc = 0
            /\ in.dst_unc = 0 => in.wb_rc = CUDA_SUCCESS}

\* the GPU service runs gpuscan_process_task on the task; a positive
\* return value puts the task back to be processed again, an error left in
\* the task or raised by werror() ends the query on this backend, and
\* otherwise the task becomes the current task with curr_index at 0.
ProcessTask(w) ==
    /\ stage[w] = "created"
    /\ \E in \in ProcessInputs(task[w]) :
          LET r == gpuscan_process_task(task[w], in.iomap_rc, in.alloc_rc,
                                        in.launch_rc, in.errcode, in.done,
                                        in.dst_unc, in.wb_rc)
          IN  /\ r.retval > 0 /\ ~r.raised => task[w].nretry < MaxRetry
              /\ task' = [task EXCEPT ![w] =
                            IF r.retval > 0 /\ ~r.raised
                            THEN [r.task EXCEPT !.nretry = @ + 1]
                            ELSE r.task]
              /\ ops' = [ops EXCEPT ![w] = r.ops]
              /\ retval' = [retval EXCEPT ![w] = r.retval]
              /\ nitems_filtered' = nitems_filtered + r.filtered
              /\ stage' = [stage EXCEPT ![w] =
                            IF r.raised THEN "error"
                            ELSE IF r.retval > 0 THEN "created"
                            ELSE IF r.task.kerror # StromError_Success THEN "error"
                            ELSE "ready"]
    /\ curr_index' = [curr_index EXCEPT ![w] = 0]
    /\ UNCHANGED <<taskShared, ccache_count, out, taskHist, rows_balance>>

\* the executor pulls one tuple from the current task
NextTuple(w) ==
    /\ stage[w] = "ready"
    /\ LET r == gpuscan_next_tuple(task[w], curr_index[w])
       IN  /\ curr_index' = [curr_index EXCEPT ![w] = r.curr_index]
           /\ nitems_filtered' = nitems_filtered + r.filtered
           /\ out' = [out EXCEPT ![w] = IF r.valid THEN Append(@, r.slot) ELSE @]
           /\ stage' = [stage EXCEPT ![w] = IF r.valid THEN "ready" ELSE "drained"]
    /\ UNCHANGED <<taskShared, ccache_count, task, ops, retval, taskHist, rows_balance>>

\* a variant that leaves the destination chunk alone
ReleaseCalls_SourceOnly(t) ==
    <<Ok("PDS_release(pds_src)"), Ok("gpuMemFree(gscan)")>>

\* the body of gpuscan_release_task: the calls it makes on task t, whose
\* source chunk is always set
ReleaseCalls(t) ==
    <<Ok("PDS_release(pds_src)")>>
    \o (IF t.has_pds_dst THEN <<Ok("PDS_release(pds_dst)")>> ELSE <<>>)
    \o <<Ok("gpuMemFree(gscan)")>>

\* gpuscan_release_task: the drained task is dropped.  rows_balance keeps
\* the number of rows read by released tasks minus the tuples they returned.
gpuscan_release_task(w) ==
    /\ stage[w] = "drained"
    /\ rows_balance' = rows_balance + Len(task[w].rows) - Len(out[w])
    /\ stage' = [stage EXCEPT ![w] = "none"]
    /\ task' = [task EXCEPT ![w] = NoTask]
    /\ out' = [out EXCEPT ![w] = <<>>]
    /\ ops' = [ops EXCEPT ![w] = ReleaseCalls(task[w])]
    /\ curr_index' = [curr_index EXCEPT ![w] = 0]
    /\ retval' = [retval EXCEPT ![w] = 0]
    /\ UNCHANGED <<taskShared, taskStat, taskHist>>

\* The pipeline below is per backend, and backends share only the two
\* counters, which are updated by atomic adds that commute; the pipeline of
\* one backend is run.
TaskWorkers == {"w1"}

TaskNext ==
    /\ \E w \in TaskWorkers :
          \/ gpuscan_next_task(w)
          \/ ProcessTask(w)
          \/ NextTuple(w)
          \/ gpuscan_release_task(w)
    /\ UNCHANGED <<scanVars, readerVars>>

TaskSpec == TaskInit /\ [][TaskNext]_vars


(***************************************************************************)
(* Claims about the task pipeline (TaskSpec).                              *)
(***************************************************************************)
HasCall(o, call) == \E i \in 1..Len(o) : o[i].call = call

\* the last run of gpuscan_process_task on w's task reached the check of
\* the kernel status
KernelRan(w) ==
    /\ stage[w] \in {"ready", "drained", "error"}
    /\ HasCall(ops[w], "cuEventSynchronize")

RecoverableKinds == {StromError_DataStoreNoSpace, StromError_CpuReCheck}

\* C5 (as stated): whenever the kernel of a task reports
\* StromError_DataStoreNoSpace or StromError_CpuReCheck, the task's error is
\* cleared and the task is marked for CPU fallback.
C5_RecoverableAlwaysFallsBack ==
    \A w \in TaskWorkers :
        KernelRan(w) /\ task[w].kern_kerror \in RecoverableKinds
        => task[w].kerror = StromError_Success /\ task[w].cpu_fallback

\* C5 (amended): with pgstrom.cpu_fallback_enabled on, whenever the kernel
\* of a task reports StromError_DataStoreNoSpace or StromError_CpuReCheck,
\* the task's error is cleared and the task is marked for CPU fallback; with
\* the setting off the error stays in the task and no fallback is marked.
C5_RecoverableFallsBackWhenEnabled ==
    \A w \in TaskWorkers :
        KernelRan(w) /\ task[w].kern_kerror \in RecoverableKinds
        => IF pgstrom_cpu_fallback_enabled
           THEN task[w].kerror = StromError_Success /\ task[w].cpu_fallback
           ELSE task[w].kerror = task[w].kern_kerror /\ ~task[w].cpu_fallback

\* C5 witness: a kernel reported destination-too-small with the setting
\* on, and the task is being served with its error cleared.
C5_Witness ==
    \E w \in TaskWorkers :
        /\ KernelRan(w)
        /\ task[w].kern_kerror = StromError_DataStoreNoSpace
        /\ pgstrom_cpu_fallback_enabled
        /\ task[w].cpu_fallback
        /\ stage[w] = "ready"

\* C7: when the kernel of a task reports an error other than the two
\* recoverable kinds, the error code stays in the task's status, cpu_fallback
\* is not set and the error is surfaced; and no task that
\* gpuscan_process_task has returned is both flagged cpu_fallback and
\* carrying a non-success error code.
C7_FatalErrorsSurface ==
    \A w \in TaskWorkers :
        /\ KernelRan(w) /\ task[w].kern_kerror \notin RecoverableKinds
                        /\ task[w].kern_kerror # StromError_Success
           => /\ task[w].kerror = task[w].kern_kerror
              /\ ~task[w].cpu_fallback
              /\ stage[w] = "error"
        /\ ~(task[w].cpu_fallback /\ task[w].kerror # StromError_Success)

\* C7 witness: a kernel reported a fatal error and the task carries it.
C7_Witness ==
    \E w \in TaskWorkers :
        /\ KernelRan(w)
        /\ task[w].kern_kerror = StromError_Other
        /\ task[w].kerror = StromError_Other
        /\ stage[w] = "error"


\* the last run of gpuscan_process_task on w's task asked for an I/O-mapped
\* buffer and was refused for lack of memory
IOMapOutOfMemory(w) ==
    /\ stage[w] # "none"
    /\ Len(ops[w]) >= 1
    /\ ops[w][1] = Op("gpuMemAllocIOMap", CUDA_ERROR_OUT_OF_MEMORY)

\* C9: when the allocation of the I/O-mapped buffer of a block-format chunk
\* fails with out-of-memory, the not-yet-resident pages are first read into
\* host memory (PDS_fillup_blocks), with_nvme_strom is turned off, and the
\* run goes on to an ordinary device buffer and, once that is allocated, an
\* ordinary host-to-device copy of the now complete host pages; the
\* condition itself raises no error.
C9_IOMapOutOfMemoryDegrades ==
    \A w \in TaskWorkers :
        IOMapOutOfMemory(w)
        => /\ task[w].format = KDS_FORMAT_BLOCK
           /\ Len(ops[w]) >= 3
           /\ ops[w][2] = Ok("PDS_fillup_blocks")
           /\ ops[w][3].call = "gpuMemAlloc"
           /\ ~task[w].with_nvme_strom
           /\ task[w].host_rows = task[w].rows
           /\ ~HasCall(ops[w], "gpuMemCopyFromSSD")
           /\ ops[w][3].rc = CUDA_SUCCESS
              => /\ Len(ops[w]) >= 5
                 /\ ops[w][4] = Ok("cuMemcpyHtoDAsync")
                 /\ ops[w][5].call = "cuLaunchKernel"
           /\ ops[w][3].rc = CUDA_ERROR_OUT_OF_MEMORY
              => stage[w] = "created" /\ retval[w] > 0
           /\ stage[w] = "error"
              => \/ ops[w][3].rc = CUDA_ERROR_OTHER
                 \/ ops[w][5].rc # CUDA_SUCCESS
                 \/ task[w].kerror # StromError_Success

\* C9 witness: the I/O-mapped allocation was refused, the ordinary one
\* succeeded, and the task, whose chunk had a page outside host memory, is
\* being served from the kernel's results.
C9_Witness ==
    \E w \in TaskWorkers :
        /\ IOMapOutOfMemory(w)
        /\ task[w].nblocks_uncached > 0
        /\ HasCall(ops[w], "cuMemcpyHtoDAsync")
        /\ stage[w] = "ready"
        /\ ~task[w].cpu_fallback

\* the page-resident view of the source chunk is complete
HostComplete(t) == t.host_rows = t.rows

\* the write-back of device-only pages, and the wait for it
WroteBack(o) ==
    \E i \in 1..Len(o) :
        /\ o[i] = Ok("cuMemcpyDtoHAsync")
        /\ i < Len(o)
        /\ o[i + 1] = Ok("cuEventSynchronize")

\* C8: when a task whose block-format input was loaded by direct
\* storage-to-device transfer ends in a recoverable failure, the run of
\* gpuscan_process_task copies the device-only pages back to the source
\* chunk's host memory and waits for the copy before it returns, so the
\* fallback path sees every page of the source chunk.
C8_DirectLoadWrittenBack ==
    \A w \in TaskWorkers :
        /\ stage[w] \in {"ready", "drained"}
        /\ task[w].cpu_fallback
        /\ task[w].with_nvme_strom
        => WroteBack(ops[w]) /\ HostComplete(task[w])

BagOfSeq(q) ==
    [x \in {q[i] : i \in 1..Len(q)} |-> Cardinality({i \in 1..Len(q) : q[i] = x})]

\* the tuples a caller pulls from task t when its kernel succeeds
AcceleratedTuples(t) ==
    LET k == KernelRun([t EXCEPT !.cpu_fallback = FALSE], StromError_Success, 0)
        c == CheckKernelStatus(k, 0, CUDA_SUCCESS)
    IN  DrainTask(c.task, 0)

\* the rows of the source chunk that pass the predicate, each once, in
\* source order, as the tuples the plan returns
PassingSourceTuples(t) ==
    LET hits == PassingRows(t.rows)
    IN  [i \in 1..Len(hits) |-> Tuple(dev_projection, t.rows[hits[i]])]

\* C3: the multiset of tuples pulled from a task served by the CPU fallback
\* equals the multiset pulled from the same task when it completes on the
\* accelerator.
C3_FallbackEqualsAccelerated ==
    \A w \in TaskWorkers :
        stage[w] = "drained" /\ task[w].cpu_fallback
        => BagOfSeq(out[w]) = BagOfSeq(AcceleratedTuples(task[w]))

\* C3, C6 apart from C8: the same two statements for the tasks whose source
\* chunk is complete in host memory.
C3_EqualWhenHostComplete ==
    \A w \in TaskWorkers :
        stage[w] = "drained" /\ task[w].cpu_fallback /\ HostComplete(task[w])
        => /\ BagOfSeq(out[w]) = BagOfSeq(AcceleratedTuples(task[w]))
           /\ out[w] = PassingSourceTuples(task[w])

\* C6: a task flagged cpu_fallback returns each row of its source chunk
\* that passes the predicate exactly once, read from the source chunk from
\* its first row on, whatever the kernel left in the destination chunk or
\* the result buffer.
C6_FallbackReturnsEachPassingRowOnce ==
    \A w \in TaskWorkers :
        stage[w] = "drained" /\ task[w].cpu_fallback
        => out[w] = PassingSourceTuples(task[w])


(***************************************************************************)
(* Further claims about the chunk reader (ScanSpec).                       *)
(***************************************************************************)
\* worker w is back from the critical section with a range reserved from a
\* valid cursor: [page, page + nr_blocks)
HoldsReservation(w) ==
    pc[w] \in {"report", "load"} /\ page[w] # InvalidBlockNumber

\* C11: every raw block range [page, page + nr_blocks) that
\* gpuscan_parallel_nextpage assigns lies inside one storage segment, ends
\* at or before the end of the table and, when page is below the start
\* position, ends at or before the start position.
C11_RangeWithinSegmentTableAndStart ==
    \A w \in Workers :
        HoldsReservation(w) /\ nr_blocks[w] > 0
        => /\ page[w] \div RELSEG_SIZE
                = (page[w] + nr_blocks[w] - 1) \div RELSEG_SIZE
           /\ page[w] + nr_blocks[w] <= rs_nblocks
           /\ page[w] < phs_startblock
                => page[w] + nr_blocks[w] <= phs_startblock

\* C11 witness: a worker holds a range of several blocks that was cut at the
\* start position of a scan that started inside the table, and a range that
\* ends at a segment boundary inside the table has been handed out.
C11_Witness ==
    \E w \in Workers :
        /\ HoldsReservation(w)
        /\ nr_blocks[w] >= 2
        /\ page[w] < phs_startblock
        /\ page[w] + nr_blocks[w] = phs_startblock
        /\ rs_nblocks > RELSEG_SIZE


\* The chunk reader with workers that keep running: a step that can be
\* taken is eventually taken.
ScanLive == ScanInit /\ [][ScanNext]_vars /\ WF_vars(ScanNext)

\* the shared cursor is end-of-scan
CursorAtEnd ==
    phs_startblock # InvalidBlockNumber /\ phs_cblock = InvalidBlockNumber

\* C12: every parallel scan terminates: if workers keep calling
\* gpuscan_parallel_nextpage, the shared cursor eventually becomes
\* end-of-scan, whatever the table size, the start position and the cache
\* content.
C12_ScanTerminates ==
    ([]<>(\E w \in Workers : pc[w] = "locked")) => <>CursorAtEnd


\* a worker that is handed a columnar chunk gets a non-empty one, at or
\* after the aligned boundary ahead of page, with its raw range cut to the
\* gap before that boundary
ChunkReturnedWithGap ==
    \A w \in Workers :
        HoldsReservation(w) /\ cc_chunk[w] # NoChunk
        => /\ ccache[cc_chunk[w]] = "full"
           /\ nr_blocks[w] = RoundUpToChunk(page[w]) - page[w]
           /\ cc_chunk[w] >= RoundUpToChunk(page[w])

\* a worker that is handed no columnar chunk had no non-empty chunk at the
\* aligned boundary inside (or right at the end of) its range
ChunkAheadIsReturned ==
    \A w \in Workers :
        LET base == RoundUpToChunk(page[w])
        IN  /\ HoldsReservation(w)
            /\ cc_chunk[w] = NoChunk
            /\ base <= page[w] + nr_blocks[w]
            => pgstrom_ccache_get_chunk(base) = NoChunk
               \/ pgstrom_ccache_is_empty(base)

\* no block of a columnar chunk that was returned is also handed out raw
CachedRangeNeverRaw == raw_blocks \cap col_blocks = {}

\* C13: when a non-empty columnar chunk exists for the aligned range that
\* starts inside the range a worker is about to reserve, the worker is
\* handed that chunk, its raw range is cut to the gap before the aligned
\* boundary, and the cursor moves past the cached range, so that no block of
\* a returned chunk is also read as a raw block by any worker.
C13_CachedChunkReplacesRawRange ==
    /\ ChunkReturnedWithGap
    /\ ChunkAheadIsReturned
    /\ CachedRangeNeverRaw


\* no worker is handed an empty columnar chunk
NoEmptyChunkReturned ==
    \A w \in Workers :
        HoldsReservation(w) /\ cc_chunk[w] # NoChunk
        => ~pgstrom_ccache_is_empty(cc_chunk[w])

\* a worker that reserved from a valid cursor is handed something to read: a
\* raw range or a columnar chunk.  (With neither, gpuscanExecScanChunk takes
\* the return for "no more blocks to read".)
ReservationNotVoid ==
    \A w \in Workers :
        HoldsReservation(w) => nr_blocks[w] > 0 \/ cc_chunk[w] # NoChunk

\* a step of worker w through the critical section that met an empty chunk
\* at the aligned boundary ahead leaves the shared cursor past that chunk
CursorPastEmptyChunk(w) ==
    LET pg   == page'[w]
        base == RoundUpToChunk(pg)
        n    == ClampNrBlocks(pg, nr_blocks[w], phs_startblock')
    IN  /\ pc[w] = "locked" /\ pc'[w] = "report"
        /\ pg # InvalidBlockNumber
        /\ CacheLookupAllowed(pg, n, base, phs_startblock')
        /\ pgstrom_ccache_get_chunk(base) # NoChunk
        /\ pgstrom_ccache_is_empty(base)
        => \/ phs_cblock' = InvalidBlockNumber
           \/ phs_cblock' \notin pg..(base + CCACHE_CHUNK_NBLOCKS - 1)

\* C14: when gpuscan_parallel_nextpage meets empty columnar chunks, none of
\* them is returned, the shared cursor ends up past them whether or not a
\* chunk follows them, and the worker is not sent away empty-handed while
\* blocks remain.
C14_EmptyChunksSkipped ==
    /\ []NoEmptyChunkReturned
    /\ []ReservationNotVoid
    /\ [][\A w \in Workers : CursorPastEmptyChunk(w)]_vars


(***************************************************************************)
(* The chunk reader of one backend (scan->rs_parallel == NULL) and its     *)
(* rewind.  One call of gpuscanExecScanChunk is one step; the blocks a     *)
(* row chunk holds are kept as a sequence of block numbers.                *)
(***************************************************************************)
MaxRooms == 2      \* blocks a row chunk takes before PDS_exec_heapscan fails
MaxRescans == 1    \* rewinds of one scan
Reader == "w1"     \* the backend whose scan is followed

\* the cache lookup condition of the serial branch
\* (ccache_refs is taken to be set: a scan without it behaves as an empty cache)
SerialLookupAllowed_AcrossStart(pg, start) ==
    /\ pg % CCACHE_CHUNK_NBLOCKS = 0
    /\ pg + CCACHE_CHUNK_NBLOCKS <= rs_nblocks

SerialLookupAllowed(pg, start) ==
    /\ pg % CCACHE_CHUNK_NBLOCKS = 0
    /\ (pg >= start \/ pg + CCACHE_CHUNK_NBLOCKS <= start)
    /\ pg + CCACHE_CHUNK_NBLOCKS <= rs_nblocks

\* PDS_exec_heapscan: FALSE when the chunk has no room for one more block
PDS_exec_heapscan(pds, room) == Len(pds) < room

\* the loop of gpuscanExecScanChunk for a serial scan.  s holds rs_inited,
\* rs_cblock, rs_startblock, pds and pds_column; the result is s at the break
RECURSIVE ExecScanChunkLoop(_, _)
ExecScanChunkLoop(s, room) ==
    IF s.rs_inited /\ s.rs_cblock = InvalidBlockNumber
    THEN s
    ELSE LET pg == IF s.rs_inited THEN s.rs_cblock ELSE s.rs_startblock
             cc == IF SerialLookupAllowed(pg, s.rs_startblock)
                   THEN pgstrom_ccache_get_chunk(pg) ELSE NoChunk
         IN  IF cc # NoChunk
             THEN [s EXCEPT !.rs_inited = TRUE,
                            !.pds_column = cc,
                            !.rs_cblock = WrapCursor(pg + CCACHE_CHUNK_NBLOCKS,
                                                     s.rs_startblock)]
             ELSE IF ~PDS_exec_heapscan(s.pds, room)
             THEN [s EXCEPT !.rs_inited = TRUE, !.rs_cblock = pg]
             ELSE ExecScanChunkLoop(
                      [s EXCEPT !.rs_inited = TRUE,
                                !.pds = Append(s.pds, pg),
                                !.rs_cblock = WrapCursor(pg + 1, s.rs_startblock)],
                      room)

\* gpuscanExecScanChunk: the suspended chunk is taken first; a columnar chunk
\* is returned in place of the row chunk, which is then set aside
gpuscanExecScanChunk(suspended, inited, cblock, start, room) ==
    LET s == ExecScanChunkLoop([rs_inited |-> inited, rs_cblock |-> cblock,
                                rs_startblock |-> start, pds |-> suspended,
                                pds_column |-> NoChunk], room)
    IN  IF s.pds_column # NoChunk
        THEN [rs_inited |-> s.rs_inited, rs_cblock |-> s.rs_cblock,
              outer_pds_suspend |-> s.pds,
              column |-> ChunkBlocks(s.pds_column), row |-> <<>>]
        ELSE [rs_inited |-> s.rs_inited, rs_cblock |-> s.rs_cblock,
              outer_pds_suspend |-> <<>>,
              column |-> {}, row |-> s.pds]

\* times block b is in the chunk returned
TimesIn(r, b) ==
    Cardinality({i \in 1..Len(r.row) : r.row[i] = b})
    + (IF b \in r.column THEN 1 ELSE 0)

\* times the call that returned r moved the cursor over block b: the blocks
\* appended to the row chunk behind those of the suspended one, and the blocks
\* of the columnar chunk substituted
TimesRead(suspended, r, b) ==
    LET pds == IF r.column # {} THEN r.outer_pds_suspend ELSE r.row
    IN  Cardinality({i \in (Len(suspended) + 1)..Len(pds) : pds[i] = b})
        + (IF b \in r.column THEN 1 ELSE 0)

\* heap_rescan: the start block of the next pass (ss_get_location under a
\* synchronized scan, else 0)
StartBlocks == IF phs_syncscan THEN 0..(rs_nblocks - 1) ELSE {0}

\* ExecReScanGpuScan: its calls, in order
ExecReScanGpuScan_RewindFirst ==
    <<"gpuscanRewindScanChunk", "SynchronizeGpuContext",
      "resetGpuScanSharedState", "pgstromRescanGpuTaskState">>

ExecReScanGpuScan ==
    <<"SynchronizeGpuContext", "resetGpuScanSharedState",
      "pgstromRescanGpuTaskState", "gpuscanRewindScanChunk">>

ReaderInit ==
    /\ rs_nblocks \in 1..MaxBlocks
    /\ phs_syncscan \in BOOLEAN
    /\ phs_startblock = InvalidBlockNumber
    /\ phs_cblock = InvalidBlockNumber
    /\ phs_mutex = NoWorker
    /\ ccache \in [ChunkBases(rs_nblocks) -> {"none", "empty", "full"}]
    /\ pc = [w \in Workers |-> "idle"]
    /\ nr_blocks = [w \in Workers |-> 0]
    /\ sync_startpage = [w \in Workers |-> InvalidBlockNumber]
    /\ page = [w \in Workers |-> InvalidBlockNumber]
    /\ cc_chunk = [w \in Workers |-> NoChunk]
    /\ report_page = [w \in Workers |-> InvalidBlockNumber]
    /\ rs_cblock = [w \in Workers |-> InvalidBlockNumber]
    /\ rs_numblocks = [w \in Workers |-> InvalidBlockNumber]
    /\ rs_inited = [w \in Workers |-> FALSE]
    /\ \E b \in StartBlocks : rs_startblock = [w \in Workers |-> b]
    /\ assigned = [b \in 0..(rs_nblocks - 1) |-> 0]
    /\ raw_blocks = {}
    /\ col_blocks = {}
    /\ end_reports = 0
    /\ TaskIdle
    /\ ExtIdle
    /\ outer_pds_suspend = <<>>
    /\ inflight = [w \in Workers |-> FALSE]
    /\ rescan_pc = [w \in Workers |-> 0]
    /\ scan_done = FALSE
    /\ delivered = [b \in 0..(rs_nblocks - 1) |-> 0]
    /\ nrescans = 0

\* the backend asks for the next chunk and, when there is one, launches its task
ExecScanChunk(w) ==
    /\ rescan_pc[w] = 0
    /\ ~inflight[w]
    /\ ~scan_done
    /\ \E room \in 1..MaxRooms :
         LET r == gpuscanExecScanChunk(outer_pds_suspend, rs_inited[w],
                                       rs_cblock[w], rs_startblock[w], room)
             none == r.column = {} /\ r.row = <<>>
         IN  /\ rs_inited' = [rs_inited EXCEPT ![w] = r.rs_inited]
             /\ rs_cblock' = [rs_cblock EXCEPT ![w] = r.rs_cblock]
             /\ outer_pds_suspend' = r.outer_pds_suspend
             /\ delivered' = [b \in DOMAIN delivered |->
                                 Min(2, delivered[b] + TimesIn(r, b))]
             /\ scan_done' = none
             /\ inflight' = [inflight EXCEPT ![w] = ~none]
             /\ assigned' = [b \in DOMAIN assigned |->
                                Min(2, assigned[b]
                                       + TimesRead(outer_pds_suspend, r, b))]
             /\ raw_blocks' = raw_blocks \cup
                                 {b \in DOMAIN assigned :
                                     b \notin r.column
                                     /\ TimesRead(outer_pds_suspend, r, b) > 0}
             /\ col_blocks' = col_blocks \cup r.column
             /\ end_reports' = end_reports
    /\ UNCHANGED <<scanShared, scanLocal, rs_numblocks, rs_startblock,
                   taskVars, rescan_pc, nrescans>>

\* a task in flight finishes
TaskDone(w) ==
    /\ inflight[w]
    /\ inflight' = [inflight EXCEPT ![w] = FALSE]
    /\ UNCHANGED <<scanVars, taskVars, outer_pds_suspend, rescan_pc, scan_done,
                   delivered, nrescans>>

\* another worker launches a task of its own scan
OtherTask(w) ==
    /\ w # Reader
    /\ ~inflight[w]
    /\ inflight' = [inflight EXCEPT ![w] = TRUE]
    /\ UNCHANGED <<scanVars, taskVars, outer_pds_suspend, rescan_pc, scan_done,
                   delivered, nrescans>>

\* the executor calls ExecReScanGpuScan
ReScanCall(w) ==
    /\ rescan_pc[w] = 0
    /\ nrescans < MaxRescans
    /\ rescan_pc' = [rescan_pc EXCEPT ![w] = 1]
    /\ nrescans' = nrescans + 1
    /\ UNCHANGED <<scanVars, taskVars, outer_pds_suspend, inflight, scan_done,
                   delivered>>

\* SynchronizeGpuContext: returns once no task of this worker is in flight
SynchronizeGpuContext(w) == ~inflight[w]

\* heap_rescan and ExecScanReScan: the read cursor of the scan starts over
gpuscanRewindScanChunk(w) ==
    /\ rs_inited' = [rs_inited EXCEPT ![w] = FALSE]
    /\ rs_cblock' = [rs_cblock EXCEPT ![w] = InvalidBlockNumber]
    /\ \E b \in StartBlocks : rs_startblock' = [rs_startblock EXCEPT ![w] = b]
    /\ scan_done' = FALSE
    /\ delivered' = [b \in DOMAIN delivered |-> 0]
    /\ assigned' = [b \in DOMAIN assigned |-> 0]
    /\ raw_blocks' = {}
    /\ col_blocks' = {}
    /\ end_reports' = end_reports

\* pgstromRescanGpuTaskState: the tasks of the pass given up are dropped; the
\* state of the chunk reader is left to gpuscanRewindScanChunk
pgstromRescanGpuTaskState(w) == outer_pds_suspend' = outer_pds_suspend

\* resetGpuScanSharedState: "do nothing"
resetGpuScanSharedState(w) == UNCHANGED scanShared

\* one call made by ExecReScanGpuScan
ReScanStep(w) ==
    /\ rescan_pc[w] > 0
    /\ LET call == ExecReScanGpuScan[rescan_pc[w]]
       IN  /\ call = "SynchronizeGpuContext" => SynchronizeGpuContext(w)
           /\ IF call = "resetGpuScanSharedState"
              THEN resetGpuScanSharedState(w) ELSE UNCHANGED scanShared
           /\ IF call = "pgstromRescanGpuTaskState"
              THEN pgstromRescanGpuTaskState(w) ELSE UNCHANGED outer_pds_suspend
           /\ IF call = "gpuscanRewindScanChunk"
              THEN gpuscanRewindScanChunk(w)
              ELSE UNCHANGED <<rs_inited, rs_cblock, rs_startblock, scan_done,
                               delivered, scanHist>>
    /\ rescan_pc' = [rescan_pc EXCEPT ![w] =
                        IF rescan_pc[w] = Len(ExecReScanGpuScan)
                        THEN 0 ELSE rescan_pc[w] + 1]
    /\ UNCHANGED <<scanLocal, rs_numblocks, taskVars, inflight, nrescans>>

ReaderNext ==
    \/ ExecScanChunk(Reader)
    \/ ReScanCall(Reader)
    \/ ReScanStep(Reader)
    \/ \E w \in Workers : TaskDone(w)
    \/ \E w \in Workers : OtherTask(w)

ReaderSpec == ReaderInit /\ [][ReaderNext]_vars


(***************************************************************************)
(* Claims about the rewind (ReaderSpec).                                   *)
(***************************************************************************)
EachBlockOnce == \A b \in DOMAIN delivered : delivered[b] = 1

\* an uninterrupted pass hands out every block of the table exactly once
C15_FirstPassReadsEachBlockOnce == scan_done /\ nrescans = 0 => EachBlockOnce

\* C15: a scan rewound at any point and then run to completion returns the
\* rows of an uninterrupted scan: every block is handed out exactly once after
\* the rewind, and nothing left from before it (cursor position, suspended
\* partial chunk) adds or removes a block.
C15_RescanReturnsSameRows == scan_done /\ nrescans > 0 => EachBlockOnce

AtRewind(w) ==
    /\ rescan_pc[w] > 0
    /\ ExecReScanGpuScan[rescan_pc[w]] = "gpuscanRewindScanChunk"

\* the read cursor is reset only when no task of the worker is in flight
RewindAfterOwnTask ==
    \A w \in Workers :
        AtRewind(w) /\ rescan_pc'[w] # rescan_pc[w] => ~inflight[w] /\ ~inflight'[w]

\* a rewind whose own task has finished can go on, whatever the other workers do
RewindWaitsForNoOther ==
    \A w \in {Reader} :
        rescan_pc[w] > 0 /\ ~inflight[w] => ENABLED ReScanStep(w)

\* C16: ExecReScanGpuScan first waits for the worker's own task in flight and
\* only then resets the read cursor; the cursor is never reset while a task
\* of that worker is executing, and the rewind waits for no other worker.
C16_RewindWaitsForOwnTaskOnly ==
    /\ [][RewindAfterOwnTask]_vars
    /\ []RewindWaitsForNoOther

\* the wait is over and the cursor about to be reset, while another worker's
\* task is still in flight
C16_Witness ==
    /\ AtRewind(Reader)
    /\ rs_inited[Reader]
    /\ nrescans > 0
    /\ \E w \in Workers \ {Reader} : inflight[w]


(***************************************************************************)
(* Claims about plans without predicate or projection, and about the       *)
(* tuples a task returns (TaskSpec).                                       *)
(***************************************************************************)
ReturnsTrueWithoutLoads(fn) == fn.ret = "true" /\ fn.body = <<>>

\* every row the fallback has read so far was returned
FallbackRejectedNone ==
    \A w \in TaskWorkers :
        task[w].cpu_fallback /\ stage[w] \in {"ready", "drained"}
        => /\ Len(out[w]) = curr_index[w]
           /\ \A i \in 1..Len(out[w]) : out[w][i].val = task[w].host_rows[i]

\* a call of gpuscan_next_tuple served by the fallback leaves the counter alone
FallbackCountsNothing ==
    \A w \in TaskWorkers :
        task[w].cpu_fallback /\ stage[w] = "ready" /\ stage'[w] \in {"ready", "drained"}
        => nitems_filtered' = nitems_filtered

\* C17: without a predicate, codegen_gpuscan_quals emits predicate functions
\* for the row and the column layout that return true and load no variable,
\* and the CPU fallback rejects no row and adds nothing to nitems_filtered.
C17_NullPredicateAcceptsAll ==
    /\ [](~dev_quals.present
          => /\ ReturnsTrueWithoutLoads(kern_source.gpuscan_quals_eval)
             /\ ReturnsTrueWithoutLoads(kern_source.gpuscan_quals_eval_column)
             /\ FallbackRejectedNone)
    /\ [][~dev_quals.present => FallbackCountsNothing]_vars

\* a task without predicate served by the fallback has returned two rows,
\* after a task that ran on the device
C17_Witness ==
    /\ ~dev_quals.present
    /\ ntasks = 2
    /\ \E w \in TaskWorkers :
          /\ task[w].cpu_fallback
          /\ stage[w] = "drained"
          /\ Len(out[w]) = 2


HasTask(w) == stage[w] # "none"

\* no tuple handed out went through the projection
NoTupleProjected(w) == \A i \in 1..Len(out[w]) : ~out[w][i].projected

\* the tuples of a task that ran on the device are source tuples, in source order
DeviceTuplesFromSource(w) ==
    ~task[w].cpu_fallback
    => \A i \in 1..Len(out[w]) :
          out[w][i].val = task[w].rows[PassingRows(task[w].rows)[i]]

EmptyTask(w) == HasTask(w) /\ Len(task[w].rows) = 0

\* a call into the CUDA runtime failed, or the kernel reported an error
EnvironmentFailed(w) ==
    \/ task[w].kern_kerror # StromError_Success
    \/ \E i \in 1..Len(ops[w]) : ops[w][i].rc # CUDA_SUCCESS

\* a task without input rows returns no tuple, its first gpuscan_next_tuple
\* finds the chunk at its end, and it fails only when the environment does
EmptyTaskReturnsNothing ==
    \A w \in TaskWorkers :
        EmptyTask(w)
        => /\ out[w] = <<>>
           /\ curr_index[w] = 0
           /\ stage[w] = "ready" => ~gpuscan_next_tuple(task[w], curr_index[w]).valid
           /\ stage[w] = "error" => EnvironmentFailed(w)

\* no step of a task without input rows changes nitems_filtered
EmptyTaskCountsNothing ==
    \A w \in TaskWorkers : EmptyTask(w) => nitems_filtered' = nitems_filtered

\* C19: a task whose source chunk holds zero rows yields zero tuples and no
\* error on the accelerated path and on the CPU fallback path: the first
\* gpuscan_next_tuple returns no tuple and nitems_filtered is unchanged.
C19_EmptyChunkYieldsNothing ==
    /\ []EmptyTaskReturnsNothing
    /\ [][EmptyTaskCountsNothing]_vars

\* a task without rows was drained by the CPU fallback, after a task that
\* had rows filtered out
C19_Witness ==
    /\ nitems_filtered > 0
    /\ \E w \in TaskWorkers :
          /\ EmptyTask(w)
          /\ stage[w] = "drained"
          /\ task[w].cpu_fallback

\* the same on the accelerated path, for a chunk taken from the columnar cache
C19_WitnessAccelerated ==
    /\ nitems_filtered > 0
    /\ \E w \in TaskWorkers :
          /\ EmptyTask(w)
          /\ stage[w] = "drained"
          /\ ~task[w].cpu_fallback
          /\ task[w].format = KDS_FORMAT_COLUMN


\* the task completed on the device with an index-only result
IndexOnlyResult(w) ==
    /\ stage[w] \in {"ready", "drained"}
    /\ ~task[w].cpu_fallback
    /\ task[w].has_kresults

\* C20: for a task that succeeded with an index-only result, successive
\* gpuscan_next_tuple calls return the source tuples at results[0],
\* results[1], ..., results[nitems-1] in that order, each once, and every
\* later call returns no tuple and leaves the read index where it is.
C20_IndexOnlyResultsInOrder ==
    \A w \in TaskWorkers :
        IndexOnlyResult(w)
        => /\ curr_index[w] <= Len(task[w].results)
           /\ Len(out[w]) = curr_index[w]
           /\ \A i \in 1..Len(out[w]) :
                 out[w][i] = Tuple(FALSE, task[w].rows[task[w].results[i]])
           /\ stage[w] = "drained"
              => LET later == gpuscan_next_tuple(task[w], curr_index[w])
                 IN  /\ curr_index[w] = Len(task[w].results)
                     /\ ~later.valid
                     /\ later.curr_index = curr_index[w]

\* an index-only result of one offset, the second row of the chunk, was
\* drained
C20_Witness ==
    \E w \in TaskWorkers :
        /\ IndexOnlyResult(w)
        /\ stage[w] = "drained"
        /\ task[w].results = <<2>>
        /\ Len(out[w]) = 1


\* C21: gpuscan_create_task gives a task an index-only result exactly when
\* the source chunk is in row format and there is no device projection, and
\* a destination chunk otherwise; every task has exactly one of the two, and
\* in index-only mode nrooms is the item count of the source chunk, so that
\* flagging every source row does not overflow the index array.
C21_IndexOnlyOrDestination ==
    \A w \in TaskWorkers :
        HasTask(w)
        => LET t == task[w]
           IN  /\ t.has_kresults <=> (t.format = KDS_FORMAT_ROW /\ ~dev_projection)
               /\ t.has_kresults <=> ~t.has_pds_dst
               /\ t.has_kresults => /\ t.nrooms = Len(t.rows)
                                    /\ Len(t.results) <= t.nrooms

\* the kernel flagged every row of a row chunk in the index array
C21_Witness ==
    \E w \in TaskWorkers :
        /\ stage[w] = "ready"
        /\ task[w].has_kresults
        /\ Len(task[w].rows) = 2
        /\ task[w].results = <<1, 2>>
        /\ task[w].nrooms = 2


(***************************************************************************)
(* CodegenSpec: one call of codegen_gpuscan_quals at plan time, for every  *)
(* list of up to MaxVars distinct variables, well-formed or not.           *)
(***************************************************************************)
AllVars ==
    {Var(r, a, d) : r \in {scanrelid} \cup OtherRelids,
                    a \in (-1)..MaxAttno, d \in BOOLEAN}

\* lists of distinct variables: no two entries for one attribute of one relation
VarLists ==
    {l \in UNION {[1..k -> AllVars] : k \in 0..MaxVars} :
        \A i, j \in 1..Len(l) :
            i # j => <<l[i].varno, l[i].varattno>> # <<l[j].varno, l[j].varattno>>}

\* what the buffer holds before the call
KernelHeader == "header"

CodegenInit ==
    /\ ScanIdle
    /\ ReaderIdle
    /\ dev_projection = FALSE
    /\ dev_quals = [present |-> FALSE, pass |-> Vals, used_vars |-> <<>>]
    /\ kern_source = NullQualsSource
    /\ pgstrom_cpu_fallback_enabled = FALSE
    /\ nitems_filtered = 0
    /\ ccache_count = 0
    /\ stage = [w \in Workers |-> "none"]
    /\ task = [w \in Workers |-> NoTask]
    /\ curr_index = [w \in Workers |-> 0]
    /\ out = [w \in Workers |-> <<>>]
    /\ ops = [w \in Workers |-> <<>>]
    /\ retval = [w \in Workers |-> 0]
    /\ ntasks = 0
    /\ column_chunks = 0
    /\ rows_balance = 0
    /\ PdsIdle
    /\ ExtIdle
    /\ codegen_quals \in {[present |-> FALSE, used_vars |-> <<>>]}
                         \cup {[present |-> TRUE, used_vars |-> l] : l \in VarLists}
    /\ kern \in {<<>>, <<KernelHeader>>}
    /\ elog_error = "none"
    /\ codegen_pc = "call"

\* the planner calls codegen_gpuscan_quals(kern, context, scanrelid, dev_quals)
CodegenCall ==
    /\ codegen_pc = "call"
    /\ LET r == codegen_gpuscan_quals(codegen_quals)
       IN  /\ kern' = kern \o r.kern
           /\ elog_error' = r.elog
           /\ codegen_pc' = IF r.elog = "none" THEN "returned" ELSE "error"
    /\ UNCHANGED <<scanVars, readerVars, dev_projection, dev_quals, kern_source,
                   pgstrom_cpu_fallback_enabled, codegen_quals, pdsVars, fixupVars, extVars,
                   taskStat,
                   taskLocal, taskHist, rows_balance>>

CodegenNext == CodegenCall

CodegenSpec == CodegenInit /\ [][CodegenNext]_vars


(***************************************************************************)
(* Claims about the code generator (CodegenSpec).                          *)
(***************************************************************************)
\* the row-layout function of the text the call appended
RowFunction == kern[Len(kern)].gpuscan_quals_eval

Generated == codegen_pc = "returned" /\ codegen_quals.present

ReferencedAttrs ==
    {codegen_quals.used_vars[i].varattno : i \in 1..Len(codegen_quals.used_vars)}

\* the places of the statements `op` in a function body
Places(body, op) == {i \in 1..Len(body) : body[i].op = op}

\* the steps to the next attribute emitted before place i
StepsBefore(body, i) ==
    Cardinality({j \in Places(body, "EXTRACT_HEAP_TUPLE_NEXT") : j < i})

\* one attribute: one lookup of its offset, one load, and no walk
DirectLookup(body, attno) ==
    /\ \E i \in 1..Len(body) :
          /\ Places(body, "kern_get_datum_tuple") = {i}
          /\ body[i].arg = attno - 1
          /\ Places(body, "pg_datum_ref") = {i + 1}
          /\ body[i + 1].arg = attno
    /\ Places(body, "EXTRACT_HEAP_TUPLE_BEGIN") = {}
    /\ Places(body, "EXTRACT_HEAP_TUPLE_NEXT") = {}
    /\ Places(body, "EXTRACT_HEAP_TUPLE_END") = {}

\* several attributes: one pass from attribute 1 to the highest one
ForwardPass(body, attrs) ==
    LET loads == Places(body, "pg_datum_ref")
        max   == SetMax(attrs)
    IN  /\ Places(body, "kern_get_datum_tuple") = {}
        /\ Cardinality(Places(body, "EXTRACT_HEAP_TUPLE_BEGIN")) = 1
        /\ Cardinality(Places(body, "EXTRACT_HEAP_TUPLE_END")) = 1
        /\ \A b \in Places(body, "EXTRACT_HEAP_TUPLE_BEGIN"),
              e \in Places(body, "EXTRACT_HEAP_TUPLE_END") :
                 \A i \in loads \cup Places(body, "EXTRACT_HEAP_TUPLE_NEXT") :
                    b < i /\ i < e
        /\ \A a \in attrs : Cardinality({i \in loads : body[i].arg = a}) = 1
        /\ \A i \in loads : body[i].arg \in attrs
        /\ \A i, j \in loads : i < j => body[i].arg < body[j].arg
        /\ \A i \in loads : StepsBefore(body, i) = body[i].arg - 1
        /\ Cardinality(Places(body, "EXTRACT_HEAP_TUPLE_NEXT")) = max - 1

\* C22: in the row-layout predicate function, one referenced attribute is
\* read by a single direct offset lookup; two or more are read in one
\* forward pass over the attributes 1..max, each referenced attribute loaded
\* exactly once, in ascending order, with exactly one step to the next
\* attribute between consecutive attribute positions.
C22_LoadsOfRowFunction ==
    Generated
    => /\ Cardinality(ReferencedAttrs) = 1
          => DirectLookup(RowFunction.body, SetMax(ReferencedAttrs))
       /\ Cardinality(ReferencedAttrs) >= 2
          => ForwardPass(RowFunction.body, ReferencedAttrs)

\* a predicate over attributes 3 and 1, met in that order, was generated
C22_Witness ==
    /\ Generated
    /\ Len(codegen_quals.used_vars) = 2
    /\ codegen_quals.used_vars[1].varattno = 3
    /\ codegen_quals.used_vars[2].varattno = 1

\* a variable codegen_gpuscan_quals must refuse
BadVar(var) ==
    \/ var.varno # scanrelid
    \/ var.varattno = 0
    \/ var.varattno < 0
    \/ ~var.devtype

RefersToBadVar ==
    /\ codegen_quals.present
    /\ \E i \in 1..Len(codegen_quals.used_vars) : BadVar(codegen_quals.used_vars[i])

\* C23: codegen_gpuscan_quals fails the generation with an error and appends
\* nothing to the kernel source buffer whenever the predicate references a
\* variable of another relation, a whole-row reference, a system column, or
\* a variable whose type has no device type.
C23_BadVariableFailsGeneration ==
    [][codegen_pc = "call" /\ RefersToBadVar
       => /\ codegen_pc' = "error"
          /\ elog_error' # "none"
          /\ kern' = kern]_vars

\* the generation failed on the second variable, the first being fine, and
\* the buffer holds what it held before
C23_Witness ==
    /\ codegen_pc = "error"
    /\ kern = <<KernelHeader>>
    /\ Len(codegen_quals.used_vars) = 2
    /\ ~BadVar(codegen_quals.used_vars[1])
    /\ ~codegen_quals.used_vars[2].devtype


(***************************************************************************)
(* BlockChunkSpec: one block-format chunk from its creation to its return  *)
(* by gpuscanExecScanChunk.  PDS_exec_heapscan stores the number of a      *)
(* page found in the shared buffer at the head of the block-number array   *)
(* and the number of a page to be read from the file at its tail.          *)
(***************************************************************************)
\* memmove(dst, src, n) on an array of slots 0..
memmove(array, dst, src, n) ==
    [i \in DOMAIN array |->
        IF dst <= i /\ i < dst + n THEN array[src + (i - dst)] ELSE array[i]]

\* a variant that leaves the array as it is
CloseBlockNumsHole_NoMove(array, nitems, nrooms, uncached) == array

\* gpuscanExecScanChunk: the later half of the array is moved down to close
\* the hole of a block chunk that was not filled up
CloseBlockNumsHole(array, nitems, nrooms, uncached) ==
    IF nitems < nrooms /\ uncached > 0
    THEN memmove(array, nitems - uncached, nrooms - uncached, uncached)
    ELSE array

BlockChunkInit ==
    /\ ScanIdle
    /\ ReaderIdle
    /\ dev_projection = FALSE
    /\ dev_quals = [present |-> FALSE, pass |-> Vals, used_vars |-> <<>>]
    /\ kern_source = NullQualsSource
    /\ pgstrom_cpu_fallback_enabled = FALSE
    /\ nitems_filtered = 0
    /\ ccache_count = 0
    /\ stage = [w \in Workers |-> "none"]
    /\ task = [w \in Workers |-> NoTask]
    /\ curr_index = [w \in Workers |-> 0]
    /\ out = [w \in Workers |-> <<>>]
    /\ ops = [w \in Workers |-> <<>>]
    /\ retval = [w \in Workers |-> 0]
    /\ ntasks = 0
    /\ column_chunks = 0
    /\ rows_balance = 0
    /\ codegen_quals = [present |-> FALSE, used_vars |-> <<>>]
    /\ kern = <<>>
    /\ elog_error = "none"
    /\ codegen_pc = "idle"
    /\ FixupIdle
    /\ ExtIdle
    /\ kds_nrooms \in 1..(MaxRooms + 1)
    /\ kds_nitems = 0
    /\ nblocks_uncached = 0
    /\ block_nums = [i \in 0..(kds_nrooms - 1) |-> InvalidBlockNumber]
    /\ pages = <<>>
    /\ pds_pc = "filling"

\* PDS_exec_heapscan on a block chunk with room left: page blknum is taken
PDS_exec_heapscan_block ==
    /\ pds_pc = "filling"
    /\ kds_nitems < kds_nrooms
    /\ \E blknum \in (0..(MaxBlocks - 1)) \ DOMAIN pages, resident \in BOOLEAN :
          /\ kds_nitems > 0 => (blknum - 1) \in DOMAIN pages
          /\ pages' = pages @@ (blknum :> IF resident THEN "resident" ELSE "uncached")
          /\ nblocks_uncached' = IF resident THEN nblocks_uncached
                                 ELSE nblocks_uncached + 1
          /\ block_nums' = [block_nums EXCEPT
                               ![IF resident THEN kds_nitems - nblocks_uncached
                                 ELSE kds_nrooms - nblocks_uncached'] = blknum]
    /\ kds_nitems' = kds_nitems + 1
    /\ UNCHANGED <<scanVars, readerVars, dev_projection, dev_quals, kern_source,
                   pgstrom_cpu_fallback_enabled, planVars, kds_nrooms, pds_pc,
                   fixupVars, extVars, taskStat, taskLocal, taskHist, rows_balance>>

\* gpuscanExecScanChunk leaves its loop with a chunk that holds pages
ReturnBlockChunk ==
    /\ pds_pc = "filling"
    /\ kds_nitems > 0
    /\ block_nums' = CloseBlockNumsHole(block_nums, kds_nitems, kds_nrooms,
                                        nblocks_uncached)
    /\ pds_pc' = "returned"
    /\ UNCHANGED <<scanVars, readerVars, dev_projection, dev_quals, kern_source,
                   pgstrom_cpu_fallback_enabled, planVars, kds_nrooms, kds_nitems,
                   nblocks_uncached, pages, fixupVars, extVars, taskStat, taskLocal, taskHist,
                   rows_balance>>

BlockChunkNext == PDS_exec_heapscan_block \/ ReturnBlockChunk

BlockChunkSpec == BlockChunkInit /\ [][BlockChunkNext]_vars

(***************************************************************************)
(* Claim about the block-number array (BlockChunkSpec).                    *)
(***************************************************************************)
PartialWithUncached ==
    kds_nitems < kds_nrooms /\ nblocks_uncached > 0

\* the first nitems slots hold exactly the pages of the chunk, each once,
\* the resident ones first
BlockNumsFlat ==
    pds_pc = "returned" /\ PartialWithUncached
    => LET nres == kds_nitems - nblocks_uncached
       IN  /\ \A i \in 0..(kds_nitems - 1) : block_nums[i] \in DOMAIN pages
           /\ \A b \in DOMAIN pages :
                 Cardinality({i \in 0..(kds_nitems - 1) : block_nums[i] = b}) = 1
           /\ \A i \in 0..(nres - 1) : pages[block_nums[i]] = "resident"
           /\ \A i \in nres..(kds_nitems - 1) : pages[block_nums[i]] = "uncached"

\* the return keeps the resident entries where they are and moves the
\* others down in the order they had at the tail
BlockNumsOrderKept ==
    pds_pc = "filling" /\ pds_pc' = "returned" /\ PartialWithUncached
    => LET nres == kds_nitems - nblocks_uncached
       IN  /\ \A i \in 0..(nres - 1) : block_nums'[i] = block_nums[i]
           /\ \A k \in 0..(nblocks_uncached - 1) :
                 block_nums'[nres + k] = block_nums[kds_nrooms - nblocks_uncached + k]

\* C24: when gpuscanExecScanChunk returns a block chunk that is not full and
\* has pages not yet resident, the first nitems entries of its block-number
\* array are the block numbers of its pages with no hole: the resident
\* entries first, in their original order, then the not-yet-resident ones,
\* in their original order.
C24_BlockNumsHoleClosed ==
    /\ []BlockNumsFlat
    /\ [][BlockNumsOrderKept]_vars

\* a chunk of three rooms was returned with one resident and one other page
C24_Witness ==
    /\ pds_pc = "returned"
    /\ kds_nrooms = 3
    /\ kds_nitems = 2
    /\ nblocks_uncached = 1


(***************************************************************************)
(* FixupSpec: the call of fixup_varnode_to_origin on gs_info->dev_quals    *)
(* when the executor node is created, for every predicate of depth up to   *)
(* MaxDepth and every device projection list of up to two entries.         *)
(***************************************************************************)
MaxDepth == 2
INDEX_VAR == 65002

list_nth(list, n) == list[n + 1]

\* a variant that looks at the top node only
fixup_varnode_to_origin_TopOnly(node, tlist) ==
    IF node.tag = "Var" /\ tlist # <<>>
    THEN list_nth(tlist, node.varattno - 1)
    ELSE node

\* expression_tree_mutator copies a node and applies the mutator to its
\* arguments
RECURSIVE fixup_varnode_to_origin(_, _)
fixup_varnode_to_origin(node, tlist) ==
    IF node.tag = "NULL" THEN NullNode
    ELSE IF node.tag = "Var" /\ tlist # <<>>
    THEN list_nth(tlist, node.varattno - 1)
    ELSE [node EXCEPT !.args =
             [i \in 1..Len(node.args) |-> fixup_varnode_to_origin(node.args[i], tlist)]]

\* expressions over the leaves, nested d deep
RECURSIVE ExprsOver(_, _)
ExprsOver(leaves, d) ==
    IF d = 0 THEN leaves
    ELSE LET sub == ExprsOver(leaves, d - 1)
         IN  sub \cup {OpExpr(a) : a \in UNION {[1..k -> sub] : k \in 1..2}}

\* what an entry of the device projection list can compute from the raw tuple
TlistExprs ==
    {VarNode(scanrelid, 2),
     OpExpr(<<VarNode(scanrelid, 1), VarNode(scanrelid, 3)>>)}

TargetLists == UNION {[1..k -> TlistExprs] : k \in 0..2}

\* the predicates the planner leaves for a projection list: over its
\* positions when there is one, over the raw tuple otherwise
DevQualsOver(tlist) ==
    {NullNode} \cup
    ExprsOver(IF tlist = <<>>
              THEN {VarNode(scanrelid, a) : a \in 1..2}
              ELSE {VarNode(INDEX_VAR, k) : k \in 1..Len(tlist)},
              MaxDepth)

FixupInit ==
    /\ ScanIdle
    /\ ReaderIdle
    /\ dev_projection = FALSE
    /\ dev_quals = [present |-> FALSE, pass |-> Vals, used_vars |-> <<>>]
    /\ kern_source = NullQualsSource
    /\ pgstrom_cpu_fallback_enabled = FALSE
    /\ nitems_filtered = 0
    /\ ccache_count = 0
    /\ stage = [w \in Workers |-> "none"]
    /\ task = [w \in Workers |-> NoTask]
    /\ curr_index = [w \in Workers |-> 0]
    /\ out = [w \in Workers |-> <<>>]
    /\ ops = [w \in Workers |-> <<>>]
    /\ retval = [w \in Workers |-> 0]
    /\ ntasks = 0
    /\ column_chunks = 0
    /\ rows_balance = 0
    /\ codegen_quals = [present |-> FALSE, used_vars |-> <<>>]
    /\ kern = <<>>
    /\ elog_error = "none"
    /\ codegen_pc = "idle"
    /\ kds_nrooms = 0
    /\ kds_nitems = 0
    /\ nblocks_uncached = 0
    /\ block_nums = <<>>
    /\ pages = <<>>
    /\ pds_pc = "idle"
    /\ custom_scan_tlist \in TargetLists
    /\ gs_dev_quals \in DevQualsOver(custom_scan_tlist)
    /\ dev_quals_raw = NullNode
    /\ fixup_pc = "call"
    /\ ExtIdle

\* dev_quals_raw = fixup_varnode_to_origin(gs_info->dev_quals, custom_scan_tlist)
FixupCall ==
    /\ fixup_pc = "call"
    /\ dev_quals_raw' = fixup_varnode_to_origin(gs_dev_quals, custom_scan_tlist)
    /\ fixup_pc' = "done"
    /\ UNCHANGED <<scanVars, readerVars, dev_projection, dev_quals, kern_source,
                   pgstrom_cpu_fallback_enabled, planVars, pdsVars, gs_dev_quals,
                   custom_scan_tlist, extVars, taskStat, taskLocal, taskHist,
                   rows_balance>>

FixupNext == FixupCall

FixupSpec == FixupInit /\ [][FixupNext]_vars

(***************************************************************************)
(* Claim about the predicate of the CPU fallback (FixupSpec).              *)
(***************************************************************************)
\* the places of the nodes of an expression, as paths of argument numbers
RECURSIVE Paths(_)
Paths(node) ==
    {<<>>} \cup UNION {{<<i>> \o p : p \in Paths(node.args[i])} :
                          i \in 1..Len(node.args)}

RECURSIVE NodeAt(_, _)
NodeAt(node, path) ==
    IF path = <<>> THEN node ELSE NodeAt(node.args[Head(path)], Tail(path))

\* the variables of an expression, at every depth
VarsOf(node) ==
    {NodeAt(node, p) : p \in {q \in Paths(node) : NodeAt(node, q).tag = "Var"}}

\* a path of the predicate that does not run through one of its variables
\* leads to a node of the same kind in the result
ReplacedAt(p) ==
    LET n == NodeAt(gs_dev_quals, p)
    IN  IF n.tag = "Var"
        THEN NodeAt(dev_quals_raw, p) = custom_scan_tlist[n.varattno]
        ELSE /\ NodeAt(dev_quals_raw, p).tag = n.tag
             /\ Len(NodeAt(dev_quals_raw, p).args) = Len(n.args)

\* C25: the predicate of the CPU fallback refers only to columns of the
\* original tuple: with a device projection list, fixup_varnode_to_origin
\* replaces every variable that refers to position k of the list by the
\* k-th expression of the list, for every k and at every depth; without a
\* list the predicate is left unchanged.
C25_FallbackPredicateOverRawTuple ==
    fixup_pc = "done"
    => /\ custom_scan_tlist = <<>> => dev_quals_raw = gs_dev_quals
       /\ custom_scan_tlist # <<>> => \A p \in Paths(gs_dev_quals) : ReplacedAt(p)
       /\ \A v \in VarsOf(dev_quals_raw) : v.varno = scanrelid

\* a variable two levels down that refers to the second entry of the list,
\* an expression over two columns, was replaced
C25_Witness ==
    /\ fixup_pc = "done"
    /\ Len(custom_scan_tlist) = 2
    /\ custom_scan_tlist[2].tag = "OpExpr"
    /\ <<1, 2>> \in Paths(gs_dev_quals)
    /\ NodeAt(gs_dev_quals, <<1, 2>>) = VarNode(INDEX_VAR, 2)
    /\ NodeAt(dev_quals_raw, <<1, 2>>) = custom_scan_tlist[2]


\* ---------------------------------------------------------------------------
\* The cursor of the serial scan (gpuscanExecScanChunk without a parallel
\* descriptor), checked in ReaderSpec.

\* the block the next read of the serial scan is made at
CursorPos ==
    IF rs_inited[Reader] THEN rs_cblock[Reader] ELSE rs_startblock[Reader]

\* the blocks a step read into the row chunk, and those of the columnar chunk
\* it took
BlocksRead == raw_blocks' \ raw_blocks
ChunkTaken == col_blocks' \ col_blocks

\* the cursor n blocks behind CursorPos: wrapped to 0 at the table end, and
\* end-of-scan when that is the start block
CursorAfter(n) ==
    LET to == (CursorPos + n) % rs_nblocks
    IN  IF to = rs_startblock[Reader] THEN InvalidBlockNumber ELSE to

\* a columnar chunk is taken only at an aligned block, whole inside the table
\* and not across the start block
ChunkTakenInPlace ==
    ChunkTaken # {} =>
        LET base == (CursorPos + Cardinality(BlocksRead)) % rs_nblocks
        IN  /\ ChunkTaken = base..(base + CCACHE_CHUNK_NBLOCKS - 1)
            /\ base % CCACHE_CHUNK_NBLOCKS = 0
            /\ base + CCACHE_CHUNK_NBLOCKS <= rs_nblocks
            /\ ~(base < rs_startblock[Reader]
                 /\ rs_startblock[Reader] < base + CCACHE_CHUNK_NBLOCKS)

\* a call that moved the cursor moved it by one block for each block read and
\* by the chunk width for a columnar chunk
SerialCursorStep ==
    rs_inited'[Reader] /\ assigned' # assigned /\ CursorPos # InvalidBlockNumber
    => /\ rs_cblock'[Reader] =
              CursorAfter(Cardinality(BlocksRead) + Cardinality(ChunkTaken))
       /\ ChunkTakenInPlace

\* no block is passed twice, and the cursor is end-of-scan when every block
\* was passed
SerialEachBlockOnce ==
    /\ \A b \in DOMAIN assigned : assigned[b] <= 1
    /\ raw_blocks \cap col_blocks = {}
    /\ rs_inited[Reader] =>
          ((rs_cblock[Reader] = InvalidBlockNumber)
           <=> \A b \in DOMAIN assigned : assigned[b] = 1)

\* C26: in a serial scan the cursor moves by one block for each block read, or
\* by the width of a cache chunk when a columnar chunk is taken at an aligned
\* block that lies inside the table and not across the start block; it wraps to
\* 0 at the table end and becomes end-of-scan exactly when it is back at the
\* start block, so one scan passes every block exactly once.
C26_SerialCursorPassesEachBlockOnce ==
    [](SerialEachBlockOnce) /\ [][SerialCursorStep]_vars

\* a scan that started inside the table, wrapped, read blocks and took a
\* columnar chunk, has come to its end
C26_Witness ==
    /\ scan_done
    /\ rs_startblock[Reader] > 0
    /\ raw_blocks # {}
    /\ col_blocks # {}
    /\ \A b \in DOMAIN assigned : assigned[b] = 1


\* ---------------------------------------------------------------------------
\* The release of a task and the retry of one out of device memory, checked
\* in TaskSpec.

\* the number of calls named call in the list o
CountCall(o, call) == Cardinality({i \in 1..Len(o) : o[i].call = call})

ReleaseCallNames ==
    {"PDS_release(pds_src)", "PDS_release(pds_dst)", "gpuMemFree(gscan)"}

\* the step that drops the task of w
ReleaseStep(w) == stage[w] # "none" /\ stage'[w] = "none"

\* the release of a task frees its source chunk once, its destination chunk
\* once when it has one, and its record once, whether the device or the
\* fallback produced its tuples
ReleasedOnce ==
    \A w \in TaskWorkers :
       ReleaseStep(w) =>
          /\ CountCall(ops'[w], "PDS_release(pds_src)") = 1
          /\ CountCall(ops'[w], "PDS_release(pds_dst)")
                = (IF task[w].has_pds_dst THEN 1 ELSE 0)
          /\ CountCall(ops'[w], "gpuMemFree(gscan)") = 1
          /\ task'[w] = NoTask

\* while the caller can pull a tuple of a task, nothing of it was released:
\* the release comes behind the call that returned no tuple
NotReleasedWhilePulled ==
    \A w \in TaskWorkers :
       /\ stage[w] # "none" =>
             \A c \in ReleaseCallNames : ~HasCall(ops[w], c)
       /\ stage[w] = "drained" => ENABLED gpuscan_release_task(w)

\* a task is dropped only after gpuscan_next_tuple returned no tuple
NoEarlyRelease ==
    \A w \in TaskWorkers : ReleaseStep(w) => stage[w] = "drained"

\* C27: the source chunk of a task, its destination chunk when it has one, and
\* the task record are each released once, on the path of a task the device
\* finished and on the fallback path alike, and none of them while the caller
\* can still pull tuples of the task.
C27_TaskReleasedOnce ==
    [](NotReleasedWhilePulled) /\ [][ReleasedOnce /\ NoEarlyRelease]_vars

\* a task with a destination chunk was drained and released
C27_Witness ==
    /\ stage["w1"] = "none"
    /\ ntasks > 0
    /\ CountCall(ops["w1"], "PDS_release(pds_src)") = 1
    /\ CountCall(ops["w1"], "PDS_release(pds_dst)") = 1
    /\ CountCall(ops["w1"], "gpuMemFree(gscan)") = 1


\* the run of gpuscan_process_task that step makes for w
ProcessStep(w) == stage[w] = "created" /\ stage'[w] # "none"

\* the ordinary device buffer of the source chunk was asked for and the
\* device was out of memory
AllocOutOfMemory(o) ==
    \E i \in 1..Len(o) : o[i] = Op("gpuMemAlloc", CUDA_ERROR_OUT_OF_MEMORY)

\* out of device memory the run returns a positive value for the task to be
\* run again: no kernel was launched, no error raised or left in the task, and
\* the task and the counter are as before the run
OutOfMemoryRetries ==
    \A w \in TaskWorkers :
       ProcessStep(w) /\ AllocOutOfMemory(ops'[w]) =>
          /\ retval'[w] > 0
          /\ stage'[w] = "created"
          /\ ~HasCall(ops'[w], "cuLaunchKernel")
          /\ task'[w].cpu_fallback = FALSE
          /\ task'[w].kerror = StromError_Success
          /\ nitems_filtered' = nitems_filtered

\* the run returns 0 only behind the launch of the kernel and the
\* synchronization with it
ZeroOnlyAfterKernel ==
    \A w \in TaskWorkers :
       ProcessStep(w) /\ retval'[w] = 0 =>
          \E i, j \in 1..Len(ops'[w]) :
             /\ i < j
             /\ ops'[w][i] = Ok("cuLaunchKernel")
             /\ ops'[w][j] = Ok("cuEventSynchronize")

\* C28: when the ordinary device buffer of a block chunk cannot be allocated
\* for want of device memory, gpuscan_process_task returns a positive value
\* (run the task again) without launching the kernel and without raising an
\* error; the task keeps cpu_fallback false and a success error code, and
\* nitems_filtered is not updated.  It returns 0 only after the kernel was
\* launched and synchronized with.
C28_OutOfMemoryReturnsRetry ==
    [][OutOfMemoryRetries /\ ZeroOnlyAfterKernel]_vars

\* a block chunk was given up for want of device memory and is to be run again
C28_Witness ==
    /\ stage["w1"] = "created"
    /\ task["w1"].format = KDS_FORMAT_BLOCK
    /\ AllocOutOfMemory(ops["w1"])
    /\ retval["w1"] > 0
    /\ task["w1"].nretry > 0


(***************************************************************************)
(* CounterSpec: the backends of a parallel scan call gpuscan_next_task one *)
(* beside the other; gs_rtstat is in the shared state, and each backend    *)
(* hands the task it made to the GPU service before it asks for the next   *)
(* chunk.                                                                  *)
(***************************************************************************)
CounterInit ==
    /\ TaskInit
    /\ ~dev_projection
    /\ ~pgstrom_cpu_fallback_enabled

\* the task made is handed to the GPU service
SubmitTask(w) ==
    /\ stage[w] = "created"
    /\ stage' = [stage EXCEPT ![w] = "none"]
    /\ task' = [task EXCEPT ![w] = NoTask]
    /\ UNCHANGED <<taskShared, taskStat, curr_index, out, ops, retval, taskHist,
                   rows_balance>>

CounterNext ==
    /\ \E w \in Workers :
          \/ gpuscan_next_task(w)
          \/ SubmitTask(w)
    /\ UNCHANGED <<scanVars, readerVars>>

CounterSpec == CounterInit /\ [][CounterNext]_vars

\* the step in which w is handed a chunk of format f
HandedChunk(w, f) ==
    stage[w] = "none" /\ stage'[w] = "created" /\ task'[w].format = f

\* a column-format chunk adds one to the counter, whatever the other backends
\* do meanwhile; a row or block chunk leaves it
CountsColumnChunk ==
    \A w \in Workers :
       /\ HandedChunk(w, KDS_FORMAT_COLUMN) => ccache_count' = ccache_count + 1
       /\ HandedChunk(w, KDS_FORMAT_ROW) \/ HandedChunk(w, KDS_FORMAT_BLOCK)
             => ccache_count' = ccache_count

\* C29: after any calls of gpuscan_next_task by any backends the shared
\* ccache_count is the number of column-format chunks handed out: a row or
\* block chunk never changes it and no increment of a backend is lost to
\* another.
C29_CacheCountIsColumnChunks ==
    [](ccache_count = column_chunks) /\ [][CountsColumnChunk]_vars

\* both backends hold a column-format chunk at once, and the counter has both
C29_Witness ==
    /\ \A w \in Workers :
          stage[w] = "created" /\ task[w].format = KDS_FORMAT_COLUMN
    /\ ccache_count = 2


\* ---------------------------------------------------------------------------
\* The end of the parallel scan (gpuscan_parallel_nextpage), checked in
\* ScanSpec.

\* the start block is settled and the shared cursor is end-of-scan
SharedCursorAtEnd ==
    phs_startblock # InvalidBlockNumber /\ phs_cblock = InvalidBlockNumber

\* the step of w through the critical section that reserves, or finds the end
PassesCursorSection(w) == pc[w] = "locked" /\ pc'[w] = "report"

\* with the cursor at the end a call assigns no block and leaves the cursor
\* and the start block as they are
EndIsFinal ==
    SharedCursorAtEnd =>
       /\ phs_cblock' = phs_cblock
       /\ phs_startblock' = phs_startblock
       /\ assigned' = assigned
       /\ \A w \in Workers :
             PassesCursorSection(w) =>
                page'[w] = InvalidBlockNumber
                /\ report_page'[w] = InvalidBlockNumber

\* a worker has the end position to report, not yet reported
EndReportPending(w) ==
    pc[w] = "report" /\ report_page[w] # InvalidBlockNumber

\* the end position is reported by the worker whose reservation ended the
\* scan, and it is the start block; a caller that found the cursor at the end
\* reports nothing
EndReportedByEnder ==
    \A w \in Workers :
       /\ PassesCursorSection(w) =>
             (report_page'[w] # InvalidBlockNumber
              <=> ~SharedCursorAtEnd /\ SharedCursorAtEnd')
       /\ pc[w] = "report" /\ pc'[w] = "load" =>
             /\ page[w] = InvalidBlockNumber =>
                   report_page'[w] = InvalidBlockNumber
                   /\ end_reports' = end_reports
             /\ end_reports' # end_reports =>
                   /\ phs_syncscan
                   /\ page[w] # InvalidBlockNumber
                   /\ report_page'[w] = phs_startblock

\* under a synchronized scan at its end, one report of the end position was
\* made or is about to be made; no such report before the end
EndReportedOnce ==
    LET pending == Cardinality({w \in Workers : EndReportPending(w)})
    IN  /\ SharedCursorAtEnd /\ phs_syncscan => end_reports + pending = 1
        /\ ~SharedCursorAtEnd \/ ~phs_syncscan => end_reports = 0

\* C30: once the shared cursor is end-of-scan, every later call of
\* gpuscan_parallel_nextpage assigns no block and leaves the cursor and the
\* start block unchanged; under a synchronized scan the end position (the
\* start page) is reported exactly once, by the worker whose reservation ended
\* the scan, and later callers report nothing.
C30_EndOfScanIsFinal ==
    [](EndReportedOnce) /\ [][EndIsFinal /\ EndReportedByEnder]_vars

\* a synchronized scan ended, its end was reported once, and a later caller
\* found the cursor at the end and is back with no block
C30_Witness ==
    /\ SharedCursorAtEnd
    /\ phs_syncscan
    /\ end_reports = 1
    /\ \A w \in Workers :
          pc[w] = "idle" /\ rs_inited[w] /\ rs_cblock[w] = InvalidBlockNumber
                         /\ rs_numblocks[w] = 0


\* ---------------------------------------------------------------------------
\* The start position of the parallel scan, checked in ScanSpec.

\* the start block, once set, stays
StartBlockStays ==
    phs_startblock # InvalidBlockNumber => phs_startblock' = phs_startblock

\* the worker that sets the start block sets it to 0, or to the location it
\* fetched under a synchronized scan, and takes its first page there
StartBlockSetByFirst ==
    \A w \in Workers :
       PassesCursorSection(w) /\ phs_startblock = InvalidBlockNumber =>
          /\ phs_startblock' = (IF phs_syncscan THEN sync_startpage[w] ELSE 0)
          /\ phs_startblock' # InvalidBlockNumber
          /\ page'[w] = phs_startblock'

\* a worker that finds the start block set takes its page at the cursor, not
\* at the start block or at the location it fetched itself
CursorNotSetAgain ==
    \A w \in Workers :
       PassesCursorSection(w) /\ phs_startblock # InvalidBlockNumber =>
          page'[w] = phs_cblock

\* C31: the shared start position is set once per scan and never changes,
\* also when several workers found it unset, released the lock to fetch a
\* synchronized start location and retried: the first to take the lock again
\* sets it, the others use that value, and the shared cursor is set to it
\* that one time only.
C31_StartBlockSetOnce ==
    [][StartBlockStays /\ StartBlockSetByFirst /\ CursorNotSetAgain]_vars

\* a worker that fetched another location went through the critical section
\* behind the worker that set the start block
C31_Witness ==
    \E w \in Workers :
       /\ pc[w] = "report"
       /\ sync_startpage[w] # InvalidBlockNumber
       /\ phs_startblock # InvalidBlockNumber
       /\ sync_startpage[w] # phs_startblock
       /\ page[w] # sync_startpage[w]


\* the shared cursor behind a reservation made at page pg is further on, was
\* wrapped to the first block, or is end-of-scan
CursorMovedOn(pg) ==
    \/ phs_cblock' = InvalidBlockNumber
    \/ phs_cblock' > pg
    \/ phs_cblock' = 0 /\ pg > 0

\* a call that found a valid cursor moved it on and came back with a raw block
\* or a columnar chunk
CallMakesProgress ==
    \A w \in Workers :
       PassesCursorSection(w) /\ page'[w] # InvalidBlockNumber =>
          /\ CursorMovedOn(page'[w])
          /\ nr_blocks'[w] > 0 \/ cc_chunk'[w] # NoChunk

\* C32: every call of gpuscan_parallel_nextpage that finds a valid shared
\* cursor moves the cursor forward (wrapping at the table end) or sets it to
\* end-of-scan, and returns at least one raw block or a columnar chunk.
C32_ValidCursorMakesProgress == [][CallMakesProgress]_vars


\* ---------------------------------------------------------------------------
\* What gpuscanExecScanChunk hands out, checked in ReaderSpec.

\* NULL was returned: the cursor is end-of-scan, no chunk is set aside and
\* every block the cursor passed was handed out
NullOnlyAtEnd ==
    scan_done =>
       /\ rs_inited[Reader] /\ rs_cblock[Reader] = InvalidBlockNumber
       /\ outer_pds_suspend = <<>>
       /\ \A b \in DOMAIN assigned : assigned[b] >= 1 => delivered[b] >= 1

\* the chunk set aside is kept until a call hands it out with all its blocks
SuspendedHandedOut ==
    outer_pds_suspend # <<>> =>
       IF outer_pds_suspend' = <<>>
       THEN \A i \in 1..Len(outer_pds_suspend) :
               LET b == outer_pds_suspend[i]
               IN  delivered'[b] = 2 \/ delivered'[b] > delivered[b]
       ELSE /\ Len(outer_pds_suspend') >= Len(outer_pds_suspend)
            /\ SubSeq(outer_pds_suspend', 1, Len(outer_pds_suspend))
                  = outer_pds_suspend

\* no columnar chunk without rows is handed out
NoEmptyChunkHandedOut ==
    \A base \in DOMAIN ccache :
       base \in col_blocks' \ col_blocks => ~pgstrom_ccache_is_empty(base)

\* C33: gpuscanExecScanChunk returns NULL only with the cursor at end-of-scan
\* and no row read so far still to be returned; the row chunk set aside when a
\* columnar chunk was returned in its place is handed out by a later call with
\* all its rows, also when the scan ends right behind the substitution; and a
\* chunk with no rows is never handed out.
C33_NullOnlyWhenAllReturned ==
    [](NullOnlyAtEnd) /\ [][SuspendedHandedOut /\ NoEmptyChunkHandedOut]_vars

\* the part that holds of the serial reader: what was read is handed out
C33_AllButEmptyChunk == [](NullOnlyAtEnd) /\ [][SuspendedHandedOut]_vars


\* ---------------------------------------------------------------------------
\* The device buffer of a block-format source chunk, checked in TaskSpec.

\* the run came to its return: no call made werror() leave the function
RunReturned(o) == \A i \in 1..Len(o) : o[i].rc # CUDA_ERROR_OTHER

\* the device buffers the run allocated for the source chunk
BuffersAllocated(o) ==
    Cardinality({i \in 1..Len(o) :
                    /\ o[i].call \in {"gpuMemAllocIOMap", "gpuMemAlloc"}
                    /\ o[i].rc = CUDA_SUCCESS})

\* a run that returns has freed what it allocated, once, and has asked for no
\* free of a buffer it did not allocate; for a row or column chunk it
\* allocated and freed nothing
SourceBufferFreedOnce ==
    \A w \in TaskWorkers :
       ProcessStep(w) /\ RunReturned(ops'[w]) =>
          /\ CountCall(ops'[w], "gpuMemFree") = BuffersAllocated(ops'[w])
          /\ CountCall(ops'[w], "gpuMemFree(0)") = 0
          /\ BuffersAllocated(ops'[w]) <= 1
          /\ task[w].format # KDS_FORMAT_BLOCK =>
                BuffersAllocated(ops'[w]) = 0

\* C35: gpuscan_process_task frees the device buffer it allocated for a
\* block-format source chunk exactly once before every return (success,
\* fallback, fatal kernel status, retry) and issues a free only for a buffer
\* that was allocated; for row and column chunks no device buffer is allocated
\* or freed.
C35_SourceBufferFreedOnce == [][SourceBufferFreedOnce]_vars


(***************************************************************************)
(* References to columnar-cache chunks.  pgstrom_ccache_get_chunk hands    *)
(* out a chunk with one reference taken; pgstrom_ccache_put_chunk gives    *)
(* one back.  The lookups of gpuscan_parallel_nextpage and of the serial   *)
(* branch of gpuscanExecScanChunk are followed with the references they    *)
(* hold, chunk by chunk.                                                   *)
(***************************************************************************)
\* pgstrom_ccache_get_chunk: the reference that comes with the chunk
pgstrom_ccache_get_chunk_ref(refs, block_nr) ==
    LET chunk == pgstrom_ccache_get_chunk(block_nr)
    IN  IF chunk = NoChunk THEN refs ELSE [refs EXCEPT ![chunk] = @ + 1]

pgstrom_ccache_put_chunk(refs, chunk) == [refs EXCEPT ![chunk] = @ - 1]

\* a variant of the loop that keeps the empty chunk's reference
SkipEmptyChunksRefs_NoPut(chunk, cblock, refs) == refs

\* the loop over empty chunks with its put and get calls: the references
\* held when it ends
RECURSIVE SkipEmptyChunksRefs(_, _, _)
SkipEmptyChunksRefs(chunk, cblock, refs) ==
    IF ~pgstrom_ccache_is_empty(chunk)
    THEN refs
    ELSE LET put  == pgstrom_ccache_put_chunk(refs, chunk)
             next == pgstrom_ccache_get_chunk(cblock)
         IN  IF next = NoChunk
             THEN put
             ELSE SkipEmptyChunksRefs(next, cblock + CCACHE_CHUNK_NBLOCKS,
                                      pgstrom_ccache_get_chunk_ref(put, cblock))

\* the chunks the loop takes
RECURSIVE SkipEmptyChunksGets(_, _)
SkipEmptyChunksGets(chunk, cblock) ==
    IF ~pgstrom_ccache_is_empty(chunk)
    THEN 0
    ELSE LET next == pgstrom_ccache_get_chunk(cblock)
         IN  IF next = NoChunk
             THEN 0
             ELSE 1 + SkipEmptyChunksGets(next, cblock + CCACHE_CHUNK_NBLOCKS)

\* a variant that leaves the reference behind when the load raises
LoadChunkRefs_LeakOnError(refs, chunk, raised) ==
    IF raised THEN refs ELSE pgstrom_ccache_put_chunk(refs, chunk)

\* PG_TRY { pgstrom_ccache_load_chunk } PG_CATCH { put; PG_RE_THROW }
\* PG_END_TRY; put: the references held afterwards
LoadChunkRefs(refs, chunk, raised) ==
    IF raised
    THEN pgstrom_ccache_put_chunk(refs, chunk)
    ELSE pgstrom_ccache_put_chunk(refs, chunk)

\* a scan in progress: parallel (rs_numblocks = 0, the cursor is phs_cblock)
\* or serial (rs_numblocks = InvalidBlockNumber, the cursor is rs_cblock)
CacheRefInit ==
    /\ rs_nblocks \in 1..MaxBlocks
    /\ phs_syncscan = FALSE
    /\ phs_mutex = NoWorker
    /\ ccache \in [ChunkBases(rs_nblocks) -> {"none", "empty", "full"}]
    /\ pc = [w \in Workers |-> "idle"]
    /\ nr_blocks = [w \in Workers |-> 0]
    /\ sync_startpage = [w \in Workers |-> InvalidBlockNumber]
    /\ page = [w \in Workers |-> InvalidBlockNumber]
    /\ cc_chunk = [w \in Workers |-> NoChunk]
    /\ report_page = [w \in Workers |-> InvalidBlockNumber]
    /\ rs_inited = [w \in Workers |-> TRUE]
    /\ \E start \in 0..(rs_nblocks - 1), cblock \in 0..(rs_nblocks - 1) :
          \/ /\ phs_startblock = start
             /\ phs_cblock = cblock
             /\ rs_numblocks = [w \in Workers |-> 0]
             /\ rs_startblock = [w \in Workers |-> InvalidBlockNumber]
             /\ rs_cblock = [w \in Workers |-> InvalidBlockNumber]
          \/ /\ phs_startblock = InvalidBlockNumber
             /\ phs_cblock = InvalidBlockNumber
             /\ rs_numblocks = [w \in Workers |-> InvalidBlockNumber]
             /\ rs_startblock = [w \in Workers |-> start]
             /\ rs_cblock = [w \in Workers |-> cblock]
    /\ assigned = [b \in 0..(rs_nblocks - 1) |-> 0]
    /\ raw_blocks = {}
    /\ col_blocks = {}
    /\ end_reports = 0
    /\ cc_refs = [b \in ChunkBases(rs_nblocks) |-> 0]
    /\ cc_gets = 0
    /\ ProjIdle
    /\ PassIdle
    /\ TaskIdle
    /\ ReaderIdle

\* gpuscan_parallel_nextpage up to the release of the lock: the lookup with
\* its loop over empty chunks
ParallelLookup(w) ==
    /\ pc[w] = "idle"
    /\ rs_numblocks[w] = 0
    /\ phs_cblock # InvalidBlockNumber
    /\ \E nr \in 1..MaxAtOnce :
          LET pg    == phs_cblock
              start == phs_startblock
              n     == ClampNrBlocks(pg, nr, start)
              base  == RoundUpToChunk(pg)
              first == IF CacheLookupAllowed(pg, n, base, start)
                       THEN pgstrom_ccache_get_chunk(base) ELSE NoChunk
              r     == ReserveBlocks(pg, nr, start)
          IN  /\ cc_refs' = IF first = NoChunk THEN cc_refs
                            ELSE SkipEmptyChunksRefs(
                                     first, base + CCACHE_CHUNK_NBLOCKS,
                                     pgstrom_ccache_get_chunk_ref(cc_refs, base))
              /\ cc_gets' = IF first = NoChunk THEN 0
                            ELSE 1 + SkipEmptyChunksGets(
                                         first, base + CCACHE_CHUNK_NBLOCKS)
              /\ cc_chunk' = [cc_chunk EXCEPT ![w] = r.cc_chunk]
              /\ nr_blocks' = [nr_blocks EXCEPT ![w] = r.nr_blocks]
              /\ page' = [page EXCEPT ![w] = pg]
              /\ phs_cblock' = WrapCursor(r.cblock, start)
    /\ pc' = [pc EXCEPT ![w] = "load"]
    /\ UNCHANGED <<rs_nblocks, phs_syncscan, phs_startblock, phs_mutex, ccache,
                   sync_startpage, report_page, scanDesc, scanHist, taskRest,
                   projVars, passVars, readerVars>>

\* the serial branch of gpuscanExecScanChunk: the lookup at the scan's block
SerialLookup(w) ==
    /\ pc[w] = "idle"
    /\ rs_numblocks[w] = InvalidBlockNumber
    /\ rs_cblock[w] # InvalidBlockNumber
    /\ LET pg    == rs_cblock[w]
           chunk == IF SerialLookupAllowed(pg, rs_startblock[w])
                    THEN pgstrom_ccache_get_chunk(pg) ELSE NoChunk
       IN  /\ cc_refs' = IF chunk = NoChunk THEN cc_refs
                         ELSE pgstrom_ccache_get_chunk_ref(cc_refs, pg)
           /\ cc_gets' = IF chunk = NoChunk THEN 0 ELSE 1
           /\ cc_chunk' = [cc_chunk EXCEPT ![w] = chunk]
           /\ page' = [page EXCEPT ![w] = pg]
           /\ rs_cblock' = [rs_cblock EXCEPT ![w] =
                               IF chunk = NoChunk
                               THEN WrapCursor(pg + 1, rs_startblock[w])
                               ELSE pg]
    /\ pc' = [pc EXCEPT ![w] = "load"]
    /\ UNCHANGED <<scanShared, nr_blocks, sync_startpage, report_page,
                   rs_numblocks, rs_inited, rs_startblock, scanHist, taskRest,
                   projVars, passVars, readerVars>>

\* pgstrom_ccache_load_chunk inside PG_TRY, with the put that follows it or
\* that PG_CATCH makes; the serial scan moves its cursor past the chunk
LoadChunk(w) ==
    /\ pc[w] = "load"
    /\ \E raised \in BOOLEAN :
          IF cc_chunk[w] = NoChunk
          THEN /\ raised = FALSE
               /\ pc' = [pc EXCEPT ![w] = "idle"]
               /\ UNCHANGED <<cc_refs, rs_cblock>>
          ELSE /\ cc_refs' = LoadChunkRefs(cc_refs, cc_chunk[w], raised)
               /\ pc' = [pc EXCEPT ![w] = IF raised THEN "error" ELSE "idle"]
               /\ rs_cblock' = [rs_cblock EXCEPT ![w] =
                      IF raised \/ rs_numblocks[w] = 0 THEN @
                      ELSE WrapCursor(page[w] + CCACHE_CHUNK_NBLOCKS,
                                      rs_startblock[w])]
    /\ cc_chunk' = [cc_chunk EXCEPT ![w] = NoChunk]
    /\ UNCHANGED <<scanShared, nr_blocks, sync_startpage, page, report_page,
                   rs_numblocks, rs_inited, rs_startblock, scanHist, cc_gets,
                   taskRest, projVars, passVars, readerVars>>

CacheRefNext ==
    \/ ParallelLookup(Reader)
    \/ SerialLookup(Reader)
    \/ LoadChunk(Reader)

CacheRefSpec == CacheRefInit /\ [][CacheRefNext]_vars

\* C34: every chunk taken from the columnar cache is given back exactly once.
\* No chunk ever has more than the one reference of the call in progress or
\* fewer than none; while pgstrom_ccache_load_chunk is due, the chunk to load
\* holds the only reference; and once the call has returned or the load has
\* raised, no reference is left, whatever the loop over empty chunks took.
RefsInRange == \A b \in DOMAIN cc_refs : cc_refs[b] \in {0, 1}

RefsWhileLoading ==
    pc[Reader] = "load" =>
        \A b \in DOMAIN cc_refs :
            cc_refs[b] = (IF b = cc_chunk[Reader] THEN 1 ELSE 0)

RefsGivenBack ==
    pc[Reader] \in {"idle", "error"} =>
        \A b \in DOMAIN cc_refs : cc_refs[b] = 0

C34_CacheRefsBalanced == RefsInRange /\ RefsWhileLoading /\ RefsGivenBack

\* the load of a chunk raised after the loop had skipped an empty one, and
\* no reference is left
C34_Witness ==
    /\ pc[Reader] = "error"
    /\ cc_gets >= 2
    /\ \A b \in DOMAIN cc_refs : cc_refs[b] = 0


(***************************************************************************)
(* The device projection: build_gpuscan_projection chooses the list,       *)
(* bufsz_estimate_gpuscan_projection sizes the extra buffer,               *)
(* codegen_gpuscan_projection writes gpuscan_projection_tuple, and         *)
(* ExecInitGpuScan builds the projection of the CPU fallback.              *)
(*                                                                         *)
(* An expression node carries its result type and whether                  *)
(* pgstrom_device_expression accepts it.  The relation scanned has         *)
(* RelNatts attributes: attribute 2 is numeric, the others int4.           *)
(***************************************************************************)
MaxTlist == 2        \* entries of the plan's target list
RelNatts == 2        \* tupdesc->natts
MaxNumericLen == 12  \* dtype->extra_sz of numeric: the most that
                     \* pg_numeric_datum_store writes

InvalidAttrNumber == 0
SelfItemPointerAttributeNumber == -1
MinTransactionIdAttributeNumber == -3
TableOidAttributeNumber == -7
MAXIMUM_ALIGNOF == 8
SizeofItemPointerData == 6

MAXALIGN(len) == ((len + MAXIMUM_ALIGNOF - 1) \div MAXIMUM_ALIGNOF) * MAXIMUM_ALIGNOF

\* pgstrom_devtype_lookup: the device types of the model
pgstrom_devtype_lookup(type_oid) ==
    IF type_oid = "numeric"
    THEN [type_name |-> "numeric", type_byval |-> FALSE, extra_sz |-> MaxNumericLen]
    ELSE [type_name |-> type_oid, type_byval |-> TRUE, extra_sz |-> 0]

\* the type of an attribute (system attributes: tid, xid, oid)
AttType(attno) ==
    IF attno = SelfItemPointerAttributeNumber THEN "tid"
    ELSE IF attno = TableOidAttributeNumber THEN "oid"
    ELSE IF attno < 0 THEN "xid"
    ELSE IF attno = 2 THEN "numeric" ELSE "int4"

PVar(attno) ==
    [tag |-> "Var", varattno |-> attno, type |-> AttType(attno),
     device |-> TRUE, args |-> <<>>]
PConst(type) ==
    [tag |-> "Const", varattno |-> 0, type |-> type, device |-> TRUE,
     args |-> <<>>]
DevExpr(type, args) ==
    [tag |-> "OpExpr", varattno |-> 0, type |-> type, device |-> TRUE,
     args |-> args]
HostExpr(type, args) ==
    [tag |-> "FuncExpr", varattno |-> 0, type |-> type, device |-> FALSE,
     args |-> args]

pgstrom_device_expression(node) == node.device

makeTargetEntry(expr, resno, resjunk) ==
    [expr |-> expr, resno |-> resno, resjunk |-> resjunk]

\* a variant that appends without looking for an equal expression
add_unique_expression_Always(expr, targetlist, resjunk) ==
    [added |-> TRUE,
     targetlist |-> Append(targetlist,
                           makeTargetEntry(expr, Len(targetlist) + 1, resjunk))]

\* add_unique_expression: the list afterwards, and whether an entry was added
add_unique_expression(expr, targetlist, resjunk) ==
    IF \E i \in 1..Len(targetlist) : targetlist[i].expr = expr
    THEN [added |-> FALSE, targetlist |-> targetlist]
    ELSE [added |-> TRUE,
          targetlist |-> Append(targetlist,
                                makeTargetEntry(expr, Len(targetlist) + 1,
                                                resjunk))]

\* build_gpuscan_projection_walker and expression_tree_walker over the
\* arguments of a host-only node.  context holds attnum, compatible_tlist
\* and tlist_dev; retval is what the walker returns.
RECURSIVE build_gpuscan_projection_walker(_, _, _)
RECURSIVE expression_tree_walker(_, _, _, _)
build_gpuscan_projection_walker(node, context, depth) ==
    IF node.tag = "Var"
    THEN IF node.varattno = InvalidAttrNumber
         THEN [retval |-> TRUE, context |-> context]
         ELSE LET added == add_unique_expression(node, context.tlist_dev, FALSE)
              IN  [retval |-> FALSE,
                   context |->
                       [context EXCEPT
                           !.tlist_dev = added.targetlist,
                           !.compatible_tlist =
                               /\ @
                               /\ ~(node.varattno # context.attnum
                                    \/ context.attnum > RelNatts)
                               /\ added.added]]
    ELSE IF depth = 0 /\ node.tag = "Const"
    THEN [retval |-> FALSE,
          context |-> [context EXCEPT !.compatible_tlist = FALSE]]
    ELSE IF pgstrom_device_expression(node)
    THEN [retval |-> FALSE,
          context |->
              [context EXCEPT
                  !.tlist_dev =
                      add_unique_expression(node, @, FALSE).targetlist,
                  !.compatible_tlist = FALSE]]
    ELSE LET r == expression_tree_walker(node.args, 1, context, depth + 1)
         IN  [retval |-> r.retval,
              context |-> [r.context EXCEPT !.compatible_tlist = FALSE]]

expression_tree_walker(args, i, context, depth) ==
    IF i > Len(args)
    THEN [retval |-> FALSE, context |-> context]
    ELSE LET r == build_gpuscan_projection_walker(args[i], context, depth)
         IN  IF r.retval THEN r
             ELSE expression_tree_walker(args, i + 1, r.context, depth)

\* the loop over the plan's target list
RECURSIVE WalkTlist(_, _, _)
WalkTlist(tlist, i, context) ==
    IF i > Len(tlist)
    THEN [retval |-> FALSE, context |-> context]
    ELSE LET r == build_gpuscan_projection_walker(
                      tlist[i], [context EXCEPT !.attnum = @ + 1], 0)
         IN  IF r.retval THEN r ELSE WalkTlist(tlist, i + 1, r.context)

\* the loops over the variables of the host and of the device quals
RECURSIVE AddVars(_, _, _, _)
AddVars(vars_list, i, targetlist, resjunk) ==
    IF i > Len(vars_list)
    THEN [retval |-> FALSE, targetlist |-> targetlist]
    ELSE IF vars_list[i].varattno = InvalidAttrNumber
    THEN [retval |-> TRUE, targetlist |-> targetlist]
    ELSE AddVars(vars_list, i + 1,
                 add_unique_expression(vars_list[i], targetlist, resjunk).targetlist,
                 resjunk)

\* build_gpuscan_projection: NIL (<<>>) or the device projection list
build_gpuscan_projection(tlist, hquals, dquals) ==
    LET w == WalkTlist(tlist, 1, [attnum |-> 0, compatible_tlist |-> TRUE,
                                  tlist_dev |-> <<>>])
        compat == w.context.compatible_tlist /\ RelNatts = w.context.attnum
        h == AddVars(hquals, 1, w.context.tlist_dev, FALSE)
        d == AddVars(dquals, 1, h.targetlist, TRUE)
    IN  IF w.retval THEN <<>>
        ELSE IF h.retval THEN <<>>
        ELSE IF d.retval THEN <<>>
        ELSE IF compat THEN <<>>
        ELSE d.targetlist

\* bufsz_estimate_gpuscan_projection: proj_extra_sz
RECURSIVE bufsz_estimate_gpuscan_projection(_)
bufsz_estimate_gpuscan_projection(tlist_proj) ==
    IF tlist_proj = <<>> THEN 0
    ELSE LET tle   == Head(tlist_proj)
             dtype == pgstrom_devtype_lookup(tle.expr.type)
             extra == IF tle.expr.tag = "Var" THEN 0
                      ELSE IF tle.expr.tag = "Const" THEN 0
                      ELSE IF ~dtype.type_byval THEN MAXALIGN(dtype.extra_sz)
                      ELSE 0
         IN  extra + bufsz_estimate_gpuscan_projection(Tail(tlist_proj))


\* the statements of gpuscan_projection_tuple that write tup_isnull,
\* tup_values and tup_extra.  Columns are numbered from 1 (the code's i + 1).
\*   isnull: tup_isnull[col] = !on             (on "expr": = expr_v.isnull)
\*   value:  if (on) tup_values[col] = ...; tup_extra += extra
StoreIsnull(col, on, src) ==
    [op |-> "isnull", col |-> col, on |-> on, src |-> src, extra |-> "none"]
StoreValue(col, on, src, extra) ==
    [op |-> "value", col |-> col, on |-> on, src |-> src, extra |-> extra]

\* step.0: the non-junk entries
NonJunk(tlist) == SelectSeq(tlist, LAMBDA tle : ~tle.resjunk)

\* varremaps[tle->resno - 1] = var->varattno for a simple Var, else 0 (palloc0)
Varremaps(tlist) ==
    [r \in 1..Len(tlist) |->
        LET vars_at == {k \in 1..Len(tlist) :
                           tlist[k].resno = r /\ tlist[k].expr.tag = "Var"}
        IN  IF vars_at = {} THEN 0
            ELSE tlist[CHOOSE k \in vars_at : TRUE].expr.varattno]

\* system columns reference if any
RECURSIVE SystemColumns(_, _)
SystemColumns(varremaps, i) ==
    IF i > Len(varremaps) THEN <<>>
    ELSE (IF varremaps[i] >= 0 THEN <<>>
          ELSE IF varremaps[i] = TableOidAttributeNumber
          THEN <<StoreIsnull(i, "htup", varremaps[i]),
                 StoreValue(i, "always", varremaps[i], "none")>>
          ELSE IF varremaps[i] = SelfItemPointerAttributeNumber
          THEN <<StoreIsnull(i, "t_self", varremaps[i]),
                 StoreValue(i, "t_self", varremaps[i], "tid")>>
          ELSE <<StoreIsnull(i, "htup", varremaps[i]),
                 StoreValue(i, "!htup", varremaps[i], "none")>>)
         \o SystemColumns(varremaps, i + 1)

\* extract regular tuples: the entries that copy attribute attnum
RECURSIVE ExtractAttribute(_, _, _)
ExtractAttribute(varremaps, attnum, j) ==
    IF j > Len(varremaps) THEN <<>>
    ELSE (IF varremaps[j] # attnum THEN <<>>
          ELSE <<StoreIsnull(j, "curr", attnum),
                 StoreValue(j, "curr", attnum, "none")>>)
         \o ExtractAttribute(varremaps, attnum, j + 1)

RECURSIVE ExtractTuple(_, _)
ExtractTuple(varremaps, attnum) ==
    IF attnum > RelNatts THEN <<>>
    ELSE ExtractAttribute(varremaps, attnum, 1)
         \o ExtractTuple(varremaps, attnum + 1)

\* step.5: store the expressions on the slot
RECURSIVE StoreExpressions(_, _, _)
StoreExpressions(tlist, varremaps, k) ==
    IF k > Len(tlist) THEN <<>>
    ELSE LET tle   == tlist[k]
             dtype == pgstrom_devtype_lookup(tle.expr.type)
         IN  (IF varremaps[tle.resno] # 0 THEN <<>>
              ELSE <<StoreIsnull(tle.resno, "expr", tle.resno),
                     StoreValue(tle.resno, "expr", tle.resno,
                                IF ~dtype.type_byval /\ dtype.extra_sz > 0
                                THEN "len" ELSE "none")>>)
             \o StoreExpressions(tlist, varremaps, k + 1)

\* codegen_gpuscan_projection: tbody
codegen_gpuscan_projection(tlist_in) ==
    LET tlist     == NonJunk(tlist_in)
        varremaps == Varremaps(tlist)
    IN  SystemColumns(varremaps, 1)
        \o ExtractTuple(varremaps, 1)
        \o StoreExpressions(tlist, varremaps, 1)

\* one tuple handed to gpuscan_projection_tuple: htup and t_self are set
\* together; curr is set for the attributes that are not null
Holds(st, in) ==
    IF st.on = "always" THEN TRUE
    ELSE IF st.on = "htup" \/ st.on = "t_self" THEN in.htup
    ELSE IF st.on = "!htup" THEN ~in.htup
    ELSE IF st.on = "curr" THEN in.htup /\ in.curr[st.src]
    ELSE ~in.expr_isnull

ExtraBytes(st, in) ==
    IF st.extra = "tid" THEN MAXALIGN(SizeofItemPointerData)
    ELSE IF st.extra = "len" THEN MAXALIGN(in.len)
    ELSE 0

\* gpuscan_projection_tuple run on one tuple: the entries of tup_isnull and
\* tup_values it assigned, the columns it flagged null, and how far it moved
\* tup_extra
RECURSIVE gpuscan_projection_tuple(_, _, _)
gpuscan_projection_tuple(body, in, t) ==
    IF body = <<>> THEN t
    ELSE LET st == Head(body)
         IN  gpuscan_projection_tuple(
                 Tail(body), in,
                 IF st.op = "isnull"
                 THEN [t EXCEPT !.isnull_set = @ \cup {st.col},
                                !.isnull = IF Holds(st, in)
                                           THEN @ \ {st.col}
                                           ELSE @ \cup {st.col}]
                 ELSE IF Holds(st, in)
                 THEN [t EXCEPT !.values_set = @ \cup {st.col},
                                !.extra = @ + ExtraBytes(st, in)]
                 ELSE t)

\* ExecInitGpuScan: the entries in front of the first junk one
RECURSIVE FallbackTlist(_)
FallbackTlist(tlist) ==
    IF tlist = <<>> THEN <<>>
    ELSE IF Head(tlist).resjunk THEN <<>>
    ELSE <<Head(tlist)>> \o FallbackTlist(Tail(tlist))

\* the expressions of a plan's target list and the variables of its quals
PlanExprs ==
    {PVar(1), PVar(2), PVar(SelfItemPointerAttributeNumber),
     PVar(MinTransactionIdAttributeNumber),
     DevExpr("int4", <<PVar(1)>>), DevExpr("numeric", <<PVar(2)>>),
     HostExpr("int4", <<PConst("numeric")>>), PConst("int4")}

PlanTlists == UNION {[1..k -> PlanExprs] : k \in 1..MaxTlist}

ProjInit ==
    /\ plan_tlist \in PlanTlists
    /\ host_quals \in {<<>>, <<PVar(1)>>}
    /\ plan_dev_quals \in {<<>>, <<PVar(1)>>, <<PVar(2), PVar(1)>>}
    /\ tlist_dev = <<>>
    /\ proj_extra_sz = 0
    /\ tbody = <<>>
    /\ dev_tlist = <<>>
    /\ tup = NoRun
    /\ proj_pc = "build"
    /\ RefIdle
    /\ PassIdle
    /\ ScanIdle
    /\ TaskIdle
    /\ ReaderIdle

\* PlanGpuScanPath: tlist_dev = build_gpuscan_projection(...)
BuildProjection ==
    /\ proj_pc = "build"
    /\ tlist_dev' = build_gpuscan_projection(plan_tlist, host_quals, plan_dev_quals)
    /\ proj_pc' = "estimate"
    /\ UNCHANGED <<plan_tlist, host_quals, plan_dev_quals, proj_extra_sz, tbody,
                   dev_tlist, tup, refVars, passVars, scanVars, taskRest, readerVars>>

\* PlanGpuScanPath: bufsz_estimate_gpuscan_projection(..., tlist_dev, ...)
EstimateProjection ==
    /\ proj_pc = "estimate"
    /\ proj_extra_sz' = bufsz_estimate_gpuscan_projection(tlist_dev)
    /\ proj_pc' = "codegen"
    /\ UNCHANGED <<plan_tlist, host_quals, plan_dev_quals, tlist_dev, tbody,
                   dev_tlist, tup, refVars, passVars, scanVars, taskRest, readerVars>>

\* PlanGpuScanPath: codegen_gpuscan_projection(..., tlist_dev ? tlist_dev : tlist)
CodegenProjection ==
    /\ proj_pc = "codegen"
    /\ tbody' = codegen_gpuscan_projection(
                    IF tlist_dev # <<>> THEN tlist_dev
                    ELSE [k \in 1..Len(plan_tlist) |->
                             makeTargetEntry(plan_tlist[k], k, FALSE)])
    /\ proj_pc' = "init"
    /\ UNCHANGED <<plan_tlist, host_quals, plan_dev_quals, tlist_dev,
                   proj_extra_sz, dev_tlist, tup, refVars, passVars, scanVars, taskRest,
                   readerVars>>

\* ExecInitGpuScan: dev_tlist; the projection runs on the device only when
\* there is a device projection list
ExecInitProjection ==
    /\ proj_pc = "init"
    /\ dev_tlist' = FallbackTlist(tlist_dev)
    /\ proj_pc' = IF tlist_dev # <<>> THEN "run" ELSE "done"
    /\ UNCHANGED <<plan_tlist, host_quals, plan_dev_quals, tlist_dev,
                   proj_extra_sz, tbody, tup, refVars, passVars, scanVars, taskRest,
                   readerVars>>

\* the kernel calls gpuscan_projection_tuple for one tuple
RunProjection ==
    /\ proj_pc = "run"
    /\ \E htup \in BOOLEAN, curr \in [1..RelNatts -> BOOLEAN],
          expr_isnull \in BOOLEAN, len \in {1, MaxNumericLen} :
          tup' = gpuscan_projection_tuple(
                     tbody,
                     [htup |-> htup, curr |-> curr,
                      expr_isnull |-> expr_isnull, len |-> len],
                     NoRun)
    /\ proj_pc' = "done"
    /\ UNCHANGED <<plan_tlist, host_quals, plan_dev_quals, tlist_dev,
                   proj_extra_sz, tbody, dev_tlist, refVars, passVars, scanVars, taskRest,
                   readerVars>>

ProjNext ==
    \/ BuildProjection
    \/ EstimateProjection
    \/ CodegenProjection
    \/ ExecInitProjection
    \/ RunProjection

ProjSpec == ProjInit /\ [][ProjNext]_vars


(***************************************************************************)
(* Claims about the device projection (ProjSpec).                          *)
(***************************************************************************)
\* the projection function has run on a tuple
ProjectionRan == proj_pc = "done" /\ tlist_dev # <<>>

\* C36: the extra buffer is large enough.  Whatever the projection list,
\* one run of gpuscan_projection_tuple moves tup_extra by no more than the
\* proj_extra_sz that bufsz_estimate_gpuscan_projection computed for it.
C36_ExtraBufferSuffices == ProjectionRan => tup.extra <= proj_extra_sz

\* the same for the lists without a ctid column and without a constant
ExtraNeedingEntry(tle) ==
    \/ tle.expr.tag = "Var" /\ tle.expr.varattno = SelfItemPointerAttributeNumber
    \/ tle.expr.tag = "Const"

C36_EstimatedEntriesFit ==
    (ProjectionRan /\ \A k \in 1..Len(tlist_dev) :
                          tlist_dev[k].resjunk \/ ~ExtraNeedingEntry(tlist_dev[k]))
        => tup.extra <= proj_extra_sz

\* the columns the device projection writes
OutputColumns == 1..Len(NonJunk(tlist_dev))

\* C37: gpuscan_projection_tuple fills every output column.  After a run,
\* tup_isnull has been assigned for every column, and tup_values for every
\* column whose tup_isnull is false.
C37_EveryColumnAssigned ==
    ProjectionRan =>
        \A col \in OutputColumns :
            /\ col \in tup.isnull_set
            /\ (col \notin tup.isnull => col \in tup.values_set)

\* the null flags alone
C37_IsnullAssigned ==
    ProjectionRan => \A col \in OutputColumns : col \in tup.isnull_set

\* C39: the shape of the device projection list.  Once built, its entries are
\* numbered 1..n in order, no two hold equal expressions, and no junk entry
\* stands in front of a non-junk one; and the list ExecInitGpuScan builds the
\* fallback projection from, which stops at the first junk entry, is the list
\* of the non-junk entries.
TlistNumbered == \A k \in 1..Len(tlist_dev) : tlist_dev[k].resno = k

TlistUnique ==
    \A k, l \in 1..Len(tlist_dev) :
        k # l => tlist_dev[k].expr # tlist_dev[l].expr

JunkLast ==
    \A k, l \in 1..Len(tlist_dev) :
        (k < l /\ tlist_dev[k].resjunk) => tlist_dev[l].resjunk

FallbackFromNonJunk ==
    proj_pc \in {"run", "done"} => dev_tlist = NonJunk(tlist_dev)

C39_ProjectionListShape ==
    TlistNumbered /\ TlistUnique /\ JunkLast /\ FallbackFromNonJunk

\* a list with junk and non-junk entries, built from a plan in which a
\* variable occurs more than once, and the fallback list taken from it
C39_Witness ==
    /\ proj_pc = "done"
    /\ \E k \in 1..Len(tlist_dev) : tlist_dev[k].resjunk
    /\ dev_tlist # <<>>
    /\ Len(dev_tlist) < Len(tlist_dev)
    /\ \E k \in 1..Len(plan_tlist) : plan_tlist[k] \in {tlist_dev[l].expr : l \in 1..Len(dev_tlist)}
    /\ \E k \in 1..Len(plan_dev_quals) :
           plan_dev_quals[k] \in {dev_tlist[l].expr : l \in 1..Len(dev_tlist)}


(***************************************************************************)
(* PassSpec: one backend scans a table that does not change, pass after    *)
(* pass.  Every pass hands out the chunks of the table in order; how a     *)
(* chunk is read (row, block or column format, pages left to the direct    *)
(* load) and what the device answers may differ from pass to pass.         *)
(* ExecReScanGpuScan starts the next pass.                                 *)
(***************************************************************************)
MaxPasses == 2

\* the chunks gpuscanExecScanChunk can hand out for the given rows
ChunksOf(rows) == {pds \in SourceChunks : pds.rows = rows}

PassInit ==
    /\ ScanIdle
    /\ ReaderIdle
    /\ PlanIdle
    /\ RefIdle
    /\ ProjIdle
    /\ dev_projection \in BOOLEAN
    /\ dev_quals \in {q \in DevQuals : Len(q.used_vars) <= 1}
    /\ kern_source = codegen_gpuscan_quals(dev_quals).kern[1]
    /\ pgstrom_cpu_fallback_enabled \in BOOLEAN
    /\ nitems_filtered = 0
    /\ ccache_count = 0
    /\ stage = [w \in Workers |-> "none"]
    /\ task = [w \in Workers |-> NoTask]
    /\ curr_index = [w \in Workers |-> 0]
    /\ out = [w \in Workers |-> <<>>]
    /\ ops = [w \in Workers |-> <<>>]
    /\ retval = [w \in Workers |-> 0]
    /\ ntasks = 0
    /\ column_chunks = 0
    /\ rows_balance = 0
    /\ pass_rows \in {<<r>> : r \in SeqsUpTo(MaxRows)}
    /\ pass_pos = 0
    /\ pass_direct = FALSE
    /\ passes = <<>>

\* gpuscan_next_task: the next chunk of the pass becomes a task
PassNextTask(w) ==
    /\ stage[w] = "none"
    /\ pass_pos < Len(pass_rows)
    /\ \E pds \in ChunksOf(pass_rows[pass_pos + 1]) :
          /\ task' = [task EXCEPT ![w] = gpuscan_create_task(pds)]
          /\ ccache_count' = IF pds.format = KDS_FORMAT_COLUMN
                             THEN pg_atomic_add_fetch_u64(ccache_count, 1)
                             ELSE ccache_count
          /\ column_chunks' = column_chunks
                              + (IF pds.format = KDS_FORMAT_COLUMN THEN 1 ELSE 0)
          /\ pass_direct' = (pass_direct \/ pds.nblocks_uncached > 0)
    /\ stage' = [stage EXCEPT ![w] = "created"]
    /\ ntasks' = ntasks + 1
    /\ pass_pos' = pass_pos + 1
    /\ ops' = [ops EXCEPT ![w] = <<>>]
    /\ out' = [out EXCEPT ![w] = <<>>]
    /\ UNCHANGED <<dev_projection, dev_quals, kern_source,
                   pgstrom_cpu_fallback_enabled, planVars, pdsVars, fixupVars,
                   refVars, projVars, pass_rows, passes, nitems_filtered,
                   curr_index, retval, rows_balance>>

\* resetGpuScanSharedState: what it leaves in a counter of gs_rtstat
resetGpuScanSharedState_rtstat(counter) == counter

\* ExecReScanGpuScan between two tasks: the counters go through
\* resetGpuScanSharedState and gpuscanRewindScanChunk moves the reader back
\* to the first chunk
ReScanGpuScan(w) ==
    /\ stage[w] = "none"
    /\ Len(passes) < MaxPasses
    /\ nitems_filtered' = resetGpuScanSharedState_rtstat(nitems_filtered)
    /\ ccache_count' = resetGpuScanSharedState_rtstat(ccache_count)
    /\ passes' = Append(passes, [complete |-> pass_pos = Len(pass_rows),
                                 host_complete |-> ~pass_direct,
                                 nitems_filtered |-> nitems_filtered,
                                 ccache_count |-> ccache_count])
    /\ pass_pos' = 0
    /\ pass_direct' = FALSE
    /\ UNCHANGED <<dev_projection, dev_quals, kern_source,
                   pgstrom_cpu_fallback_enabled, planVars, pdsVars, fixupVars,
                   refVars, projVars, pass_rows, taskLocal, taskHist,
                   rows_balance>>

PassNext ==
    /\ \/ PassNextTask(Reader)
       \/ ProcessTask(Reader)
       \/ NextTuple(Reader)
       \/ gpuscan_release_task(Reader)
       \/ ReScanGpuScan(Reader)
    /\ UNCHANGED <<scanVars, readerVars>>

PassSpec == PassInit /\ [][PassNext]_vars

\* C38: the counters of the scan only grow, and a rescan keeps them.  No
\* step lowers nitems_filtered or ccache_count; ExecReScanGpuScan leaves both
\* as they are; and when every pass so far was complete, nitems_filtered at
\* the end of pass k is k times what it was at the end of the first pass.
CountersNeverDecrease ==
    /\ nitems_filtered' >= nitems_filtered
    /\ ccache_count' >= ccache_count

RescanKeepsCounters ==
    Len(passes') > Len(passes) =>
        /\ nitems_filtered' = nitems_filtered
        /\ ccache_count' = ccache_count

AllComplete == \A k \in 1..Len(passes) : passes[k].complete

KTimesFirstPass ==
    AllComplete =>
        \A k \in 1..Len(passes) :
            passes[k].nitems_filtered = k * passes[1].nitems_filtered

C38_CountersAccumulate ==
    [](KTimesFirstPass) /\ [][CountersNeverDecrease /\ RescanKeepsCounters]_vars

\* the counters alone
C38_CountersKept == [][CountersNeverDecrease /\ RescanKeepsCounters]_vars

\* the same number in every pass when no chunk leaves pages to the direct load
C38_KTimesWhenHostComplete ==
    (\A k \in 1..Len(passes) : passes[k].complete /\ passes[k].host_complete)
        => \A k \in 1..Len(passes) :
               passes[k].nitems_filtered = k * passes[1].nitems_filtered

====
